---- MODULE Spec2Model ----
(***************************************************************************)
(* Windowed feature extraction of the Aethelstan network-anomaly           *)
(* repository.  Two pieces of the Python source are modelled:              *)
(*                                                                         *)
(*  - the window-based extraction loop of tests/test_system.py (the        *)
(*    in-repository extractor that turns a packet list into window         *)
(*    records), one action per loop iteration;                             *)
(*  - backend/utils/helper.py, WindowHelpers: new_window, update_window    *)
(*    and finalize_window acting on one statistics dictionary.             *)
(*                                                                         *)
(* Time is counted in whole seconds.  A value the code computes by a       *)
(* floating-point division is kept as the pair <<numerator, denominator>>. *)
(***************************************************************************)
EXTENDS Integers, Sequences, FiniteSets, TLC

\* ------------------------------------------------------------------ bounds

\* Longest capture explored (number of packets).
MaxPackets == 3

\* Longest window-record sequence handed to feature engineering.
MaxWindows == 5

\* ------------------------------------------------------- program constants

\* window_size = 60.0  (seconds)
window_size == 60

\* ------------------------------------------------------------- the inputs

\* IP protocol numbers as scapy reports them in ip.proto.
ProtoNum(kind) ==
    CASE kind = "TCP" -> 6
      [] kind = "UDP" -> 17
      [] kind = "ICMP" -> 1
      [] OTHER -> 47

\* The frames a capture is built from.  kind is the topmost layer the code
\* tests for: TCP, UDP, ICMP, OTHER_IP (an IP packet of another protocol)
\* or NON_IP (a frame with no IP layer, such as ARP).  Fields a layer does
\* not have are 0 / "none" and are never read by the code for that kind.
Frames ==
    { [kind |-> "TCP", len |-> 100, src |-> "10.0.0.1", dst |-> "10.0.0.9",
       sport |-> 1234, dport |-> 80],
      [kind |-> "TCP", len |-> 60, src |-> "10.0.0.2", dst |-> "10.0.0.9",
       sport |-> 0, dport |-> 80],
      [kind |-> "UDP", len |-> 200, src |-> "10.0.0.1", dst |-> "10.0.0.9",
       sport |-> 53, dport |-> 53],
      [kind |-> "ICMP", len |-> 64, src |-> "10.0.0.2", dst |-> "10.0.0.9",
       sport |-> 0, dport |-> 0],
      [kind |-> "OTHER_IP", len |-> 80, src |-> "10.0.0.1", dst |-> "10.0.0.9",
       sport |-> 0, dport |-> 0],
      [kind |-> "NON_IP", len |-> 42, src |-> "none", dst |-> "none",
       sport |-> 0, dport |-> 0] }

\* Timestamp of a capture's first packet, and the distance from one packet
\* to the next (negative: an out-of-order packet).
FirstTimes == {0, 7}
Gaps == {-5, 0, 1, 60, 120, 600}

WithTime(f, t) ==
    [time |-> t, kind |-> f.kind, len |-> f.len, src |-> f.src, dst |-> f.dst,
     sport |-> f.sport, dport |-> f.dport]

HasIP(pkt) == pkt.kind # "NON_IP"

\* ------------------------------------------------------------------- state

VARIABLES
    packets,          \* the capture read so far (rdpcap's list, in order)
    pc,               \* position of the extraction script
    current_window,   \* the open window's dictionary
    windows,          \* the emitted window records, in order
    stats,            \* WindowHelpers: the statistics dictionary
    helper_pc,        \* WindowHelpers: "ok", or "raised" after an exception
    finalized,        \* WindowHelpers: records returned by finalize_window
    df,               \* feature engineering: the input DataFrame
    fe_out,           \* feature engineering: the DataFrame it produced
    attribution,      \* calculate_contributing_features: input and result
    chunked,          \* the chunked drivers: split, per-chunk extraction, merge
    session,          \* the API: a session's row, its processing and its rows
    upload,           \* save_upload_file: the chunks read and the file written
    insight           \* InsightGenerator.generate: records in, insights out

vars == <<packets, pc, current_window, windows, stats, helper_pc, finalized,
          df, fe_out, attribution, chunked, session, upload, insight>>
loop_vars == <<packets, pc, current_window, windows>>
helper_vars == <<stats, helper_pc, finalized>>
fe_vars == <<df, fe_out>>
driver_vars == <<chunked, session, upload, insight>>
analysis_vars == <<loop_vars, helper_vars, fe_vars, attribution>>

\* ------------------------------------------------- tests/test_system.py

Min(a, b) == IF a < b THEN a ELSE b
Max(a, b) == IF a > b THEN a ELSE b

\* a / b as the code computes it, kept exact.
Div(a, b) == <<a, b>>

\* The dictionary of a window opened at start_time with the given end.
EmptyWindow(ws, we) ==
    [window_start |-> ws, window_end |-> we,
     packet_count |-> 0, total_bytes |-> 0, packet_sizes |-> <<>>,
     tcp_count |-> 0, udp_count |-> 0, icmp_count |-> 0, other_count |-> 0,
     src_ips |-> {}, dst_ips |-> {}, flows |-> {}]

\* Mutant of InitWindow: the first window is given no width.
InitWindowNoWidth(start_time) == EmptyWindow(start_time, start_time)

\* Mutant of InitWindow: the first window is aligned to a multiple of
\* window_size.
InitWindowAligned(start_time) ==
    EmptyWindow((start_time \div window_size) * window_size,
                (start_time \div window_size) * window_size + window_size)

\* start_time = float(packets[0].time); the first current_window.
InitWindow(start_time) == EmptyWindow(start_time, start_time + window_size)

\* Mutant of StartNewWindow: the counter of the closed window is carried
\* over into the new one.
StartNewWindowKeepCount(cw) ==
    [EmptyWindow(cw.window_end, cw.window_end + window_size)
        EXCEPT !.packet_count = cw.packet_count]

\* "Start new window": the window following cw.
StartNewWindow(cw) == EmptyWindow(cw.window_end, cw.window_end + window_size)

RECURSIVE SeqMin(_), SeqMax(_)
SeqMin(s) == IF Len(s) = 1 THEN s[1] ELSE Min(s[1], SeqMin(Tail(s)))
SeqMax(s) == IF Len(s) = 1 THEN s[1] ELSE Max(s[1], SeqMax(Tail(s)))

\* window_feature: the record emitted for window cw (only built when
\* cw.packet_count > 0).  packet_size_std is not modelled.
WindowFeature(cw) ==
    [window_start |-> cw.window_start,
     window_end |-> cw.window_end,
     packet_count |-> cw.packet_count,
     total_bytes |-> cw.total_bytes,
     avg_packet_size |-> Div(cw.total_bytes, cw.packet_count),
     min_packet_size |->
        IF cw.packet_sizes # <<>> THEN SeqMin(cw.packet_sizes) ELSE 0,
     max_packet_size |->
        IF cw.packet_sizes # <<>> THEN SeqMax(cw.packet_sizes) ELSE 0,
     tcp_count |-> cw.tcp_count,
     udp_count |-> cw.udp_count,
     icmp_count |-> cw.icmp_count,
     other_count |-> cw.other_count,
     tcp_ratio |-> Div(cw.tcp_count, cw.packet_count),
     udp_ratio |-> Div(cw.udp_count, cw.packet_count),
     icmp_ratio |-> Div(cw.icmp_count, cw.packet_count),
     other_ratio |-> Div(cw.other_count, cw.packet_count),
     unique_src_ips |-> Cardinality(cw.src_ips),
     unique_dst_ips |-> Cardinality(cw.dst_ips),
     flow_count |-> Cardinality(cw.flows),
     avg_flow_packets |->
        IF cw.flows # {} THEN Div(cw.packet_count, Cardinality(cw.flows))
        ELSE <<0, 1>>,
     avg_flow_bytes |->
        IF cw.flows # {} THEN Div(cw.total_bytes, Cardinality(cw.flows))
        ELSE <<0, 1>>,
     packets_per_sec |-> Div(cw.packet_count, window_size),
     bytes_per_sec |-> Div(cw.total_bytes, window_size)]

\* "Finalize current window": the record is appended only for a window
\* that holds packets.
EmitWindow(cw, ws) ==
    IF cw.packet_count > 0 THEN Append(ws, WindowFeature(cw)) ELSE ws

\* while pkt_time > current_window['window_end']: finalize, start new.
RECURSIVE CloseWindows(_, _, _)
CloseWindows(cw, ws, pkt_time) ==
    IF pkt_time > cw.window_end
    THEN CloseWindows(StartNewWindow(cw), EmitWindow(cw, ws), pkt_time)
    ELSE [cw |-> cw, ws |-> ws]

\* The protocol branch of "Process packet", taken only inside `if IP in pkt`.
CountProtocol(cw, pkt) ==
    CASE pkt.kind = "TCP" -> [cw EXCEPT !.tcp_count = @ + 1]
      [] pkt.kind = "UDP" -> [cw EXCEPT !.udp_count = @ + 1]
      [] pkt.kind = "ICMP" -> [cw EXCEPT !.icmp_count = @ + 1]
      [] OTHER -> [cw EXCEPT !.other_count = @ + 1]

\* proto / sport / dport as the loop sets them before the flow is added.
LoopProto(pkt) ==
    CASE pkt.kind = "TCP" -> "TCP"
      [] pkt.kind = "UDP" -> "UDP"
      [] pkt.kind = "ICMP" -> "ICMP"
      [] OTHER -> "other"
LoopSport(pkt) == IF pkt.kind \in {"TCP", "UDP"} THEN pkt.sport ELSE 0
LoopDport(pkt) == IF pkt.kind \in {"TCP", "UDP"} THEN pkt.dport ELSE 0

\* if sport and dport: flows.add((src_ip, sport, dst_ip, dport, proto))
AddFlow(cw, pkt) ==
    IF LoopSport(pkt) # 0 /\ LoopDport(pkt) # 0
    THEN [cw EXCEPT !.flows = @ \cup
            {<<pkt.src, LoopSport(pkt), pkt.dst, LoopDport(pkt), LoopProto(pkt)>>}]
    ELSE cw

\* "Process packet": the counters, then the IP part under `if IP in pkt`.
ProcessPacket(cw, pkt) ==
    LET counted == [cw EXCEPT !.packet_count = @ + 1,
                              !.total_bytes = @ + pkt.len,
                              !.packet_sizes = Append(@, pkt.len)]
    IN  IF HasIP(pkt)
        THEN AddFlow(CountProtocol(
                 [counted EXCEPT !.src_ips = @ \cup {pkt.src},
                                 !.dst_ips = @ \cup {pkt.dst}], pkt), pkt)
        ELSE counted

\* One iteration of `for i, pkt in enumerate(packets)`.
Iterate(cw, ws, pkt) ==
    LET closed == CloseWindows(cw, ws, pkt.time)
    IN  [cw |-> ProcessPacket(closed.cw, pkt), ws |-> closed.ws]

NoWindow == EmptyWindow(0, 0)

\* len(packets) == 0: the `if len(packets) > 0` block is skipped.
EmptyCapture ==
    /\ pc = "init"
    /\ pc' = "done"
    /\ UNCHANGED <<packets, current_window, windows>>
    /\ UNCHANGED <<helper_vars, fe_vars, attribution, driver_vars>>

\* The first packet: the first window is opened at its timestamp, then the
\* packet goes through the loop body.
FirstPacket ==
    /\ pc = "init"
    /\ \E f \in Frames, t \in FirstTimes :
         LET pkt == WithTime(f, t)
             r == Iterate(InitWindow(t), <<>>, pkt)
         IN  /\ packets' = <<pkt>>
             /\ current_window' = r.cw
             /\ windows' = r.ws
    /\ pc' = "loop"
    /\ UNCHANGED <<helper_vars, fe_vars, attribution, driver_vars>>

\* Every later packet of the capture.
NextPacket ==
    /\ pc = "loop"
    /\ Len(packets) < MaxPackets
    /\ \E f \in Frames, g \in Gaps :
         LET pkt == WithTime(f, packets[Len(packets)].time + g)
             r == Iterate(current_window, windows, pkt)
         IN  /\ pkt.time >= 0
             /\ packets' = Append(packets, pkt)
             /\ current_window' = r.cw
             /\ windows' = r.ws
    /\ UNCHANGED pc
    /\ UNCHANGED <<helper_vars, fe_vars, attribution, driver_vars>>

\* End of the capture: "Add last window".
Finish ==
    /\ pc = "loop"
    /\ windows' = EmitWindow(current_window, windows)
    /\ pc' = "done"
    /\ UNCHANGED <<packets, current_window>>
    /\ UNCHANGED <<helper_vars, fe_vars, attribution, driver_vars>>

\* "Step 2: Load and clean features": open(output_features).  The file is
\* written only inside the `if len(packets) > 0` block, so after an empty
\* capture it exists only if an earlier run left it (stale); otherwise
\* open() raises FileNotFoundError, which nothing catches.
LoadFeatures ==
    /\ pc = "done"
    /\ \E stale \in BOOLEAN :
         pc' = IF packets # <<>> \/ stale THEN "loaded" ELSE "file_not_found"
    /\ UNCHANGED <<packets, current_window, windows>>
    /\ UNCHANGED <<helper_vars, fe_vars, attribution, driver_vars>>

LoopInit ==
    /\ packets = <<>>
    /\ pc = "init"
    /\ current_window = NoWindow
    /\ windows = <<>>

\* ------------------------------------------- backend/utils/helper.py

\* WindowHelpers.new_window()
new_window ==
    [packet_count |-> 0, total_bytes |-> 0,
     tcp_count |-> 0, udp_count |-> 0, icmp_count |-> 0,
     other_protocol_count |-> 0,
     unique_src_ips |-> {}, unique_dst_ips |-> {}, flows |-> {}]

\* The first two statements of update_window, which run for every frame.
CountFrame(s, pkt) ==
    [s EXCEPT !.packet_count = @ + 1, !.total_bytes = @ + pkt.len]

\* WindowHelpers.update_window(pkt, stats) from `ip = pkt[IP]` on, for a
\* frame that has an IP layer.
UpdateIP(s, pkt) ==
    LET ips == [s EXCEPT !.unique_src_ips = @ \cup {pkt.src},
                         !.unique_dst_ips = @ \cup {pkt.dst}]
        key == <<pkt.src, pkt.sport, pkt.dst, pkt.dport, ProtoNum(pkt.kind)>>
    IN  CASE pkt.kind = "TCP" ->
               [ips EXCEPT !.tcp_count = @ + 1, !.flows = @ \cup {key}]
          [] pkt.kind = "UDP" ->
               [ips EXCEPT !.udp_count = @ + 1, !.flows = @ \cup {key}]
          [] pkt.kind = "ICMP" -> [ips EXCEPT !.icmp_count = @ + 1]
          [] OTHER -> [ips EXCEPT !.other_protocol_count = @ + 1]

\* WindowHelpers.update_window: pkt[IP] raises IndexError for a frame
\* without an IP layer, after the first two counters were incremented.
update_window(s, pkt) ==
    IF HasIP(pkt)
    THEN [stats |-> UpdateIP(CountFrame(s, pkt), pkt), raised |-> FALSE]
    ELSE [stats |-> CountFrame(s, pkt), raised |-> TRUE]

\* max(window_end - window_start, 1e-6), in microseconds (1e-6 s is 1).
Duration(ws, we) == Max((we - ws) * 1000000, 1)

\* x / packet_count if packet_count else 0
Guarded(x, n) == IF n # 0 THEN Div(x, n) ELSE <<0, 1>>

\* WindowHelpers.finalize_window(stats, window_start, window_end)
finalize_window(s, ws, we) ==
    [window_start |-> ws,
     window_end |-> we,
     duration |-> Duration(ws, we),
     packet_count |-> s.packet_count,
     total_bytes |-> s.total_bytes,
     avg_packet_size |-> Guarded(s.total_bytes, s.packet_count),
     \* bits per microsecond of duration: the code's value is 10^6 times it
     bandwidth_bps |-> Div(s.total_bytes * 8, Duration(ws, we)),
     tcp_ratio |-> Guarded(s.tcp_count, s.packet_count),
     udp_ratio |-> Guarded(s.udp_count, s.packet_count),
     icmp_ratio |-> Guarded(s.icmp_count, s.packet_count),
     unique_src_ip_count |-> Cardinality(s.unique_src_ips),
     unique_dst_ip_count |-> Cardinality(s.unique_dst_ips),
     flow_count |-> Cardinality(s.flows)]

\* A caller opens a fresh statistics dictionary.
NewWindowCall ==
    /\ stats # new_window \/ helper_pc = "raised"
    /\ stats' = new_window
    /\ helper_pc' = "ok"
    /\ UNCHANGED finalized
    /\ UNCHANGED <<loop_vars, fe_vars, attribution, driver_vars>>

\* A caller hands one frame to update_window.
UpdateWindowCall ==
    /\ helper_pc = "ok"
    /\ stats.packet_count < MaxPackets
    /\ \E f \in Frames :
         LET r == update_window(stats, WithTime(f, 0))
         IN  /\ stats' = r.stats
             /\ helper_pc' = IF r.raised THEN "raised" ELSE "ok"
    /\ UNCHANGED finalized
    /\ UNCHANGED <<loop_vars, fe_vars, attribution, driver_vars>>

\* A caller closes the window over [ws, we].
FinalizeWindowCall ==
    /\ helper_pc = "ok"
    /\ Len(finalized) < 1
    /\ \E ws \in FirstTimes, d \in {0, window_size} :
         finalized' = Append(finalized, finalize_window(stats, ws, ws + d))
    /\ UNCHANGED <<stats, helper_pc>>
    /\ UNCHANGED <<loop_vars, fe_vars, attribution, driver_vars>>

HelperInit ==
    /\ stats = new_window
    /\ helper_pc = "ok"
    /\ finalized = <<>>

\* ------------------------------------------------ feature engineering
\* scripts/train_behavioral_model.py, scripts/infer_behavioral_model.py,
\* scripts/run_production_inference.py, scripts/retrain_scale_robust.py and
\* scripts/data_cleanup.py.  A DataFrame is [columns, rows]: the ordered
\* column names and, per row, a function from column name to value.
\* Numbers the code computes by division are exact rationals <<n, d>> in
\* lowest terms; a logarithm is kept as the term <<name, arguments...>>.

Abs(x) == IF x < 0 THEN -x ELSE x

RECURSIVE GCD(_, _)
GCD(a, b) == IF b = 0 THEN a ELSE GCD(b, a % b)

\* n / d for d # 0, in lowest terms with a positive denominator.
Rat(n, d) ==
    LET g == GCD(Abs(n), Abs(d))
        s == IF d < 0 THEN -1 ELSE 1
    IN  <<(s * n) \div g, (s * d) \div g>>

Zero == <<0, 1>>

\* Window records as the extractor's JSON holds them.
WindowRecords ==
    { [packet_count |-> 0, total_bytes |-> 0, avg_packet_size |-> 0,
       min_packet_size |-> 0, max_packet_size |-> 0,
       tcp_count |-> 0, udp_count |-> 0, icmp_count |-> 0, other_count |-> 0,
       tcp_ratio |-> Zero, udp_ratio |-> Zero, icmp_ratio |-> Zero,
       unique_src_ips |-> 0, unique_dst_ips |-> 0, flow_count |-> 0,
       bytes_per_sec |-> 0],
      [packet_count |-> 10, total_bytes |-> 1200, avg_packet_size |-> 120,
       min_packet_size |-> 60, max_packet_size |-> 200,
       tcp_count |-> 8, udp_count |-> 2, icmp_count |-> 0, other_count |-> 0,
       tcp_ratio |-> <<4, 5>>, udp_ratio |-> <<1, 5>>, icmp_ratio |-> Zero,
       unique_src_ips |-> 2, unique_dst_ips |-> 1, flow_count |-> 2,
       bytes_per_sec |-> 20],
      [packet_count |-> 100, total_bytes |-> 6000, avg_packet_size |-> 60,
       min_packet_size |-> 40, max_packet_size |-> 100,
       tcp_count |-> 50, udp_count |-> 25, icmp_count |-> 20,
       other_count |-> 5,
       tcp_ratio |-> <<1, 2>>, udp_ratio |-> <<1, 4>>, icmp_ratio |-> <<1, 5>>,
       unique_src_ips |-> 4, unique_dst_ips |-> 3, flow_count |-> 5,
       bytes_per_sec |-> 100] }

\* The columns of the extractor's JSON, in order.
RawColumns ==
    <<"window_start", "window_end", "packet_count", "total_bytes",
      "avg_packet_size", "min_packet_size", "max_packet_size",
      "tcp_count", "udp_count", "icmp_count", "other_count",
      "tcp_ratio", "udp_ratio", "icmp_ratio",
      "unique_src_ips", "unique_dst_ips", "flow_count", "bytes_per_sec">>

\* Columns an input may lack (the code tests for them with `in df.columns`).
OptionalColumns == {"flow_count", "min_packet_size", "max_packet_size"}
Schemas == { {}, {"flow_count"}, {"min_packet_size", "max_packet_size"},
             OptionalColumns }

Range(s) == {s[k] : k \in 1..Len(s)}
Has(d, c) == c \in Range(d.columns)
NotIn(s, missing) == SelectSeq(s, LAMBDA c : c \notin missing)

\* pd.DataFrame(data): row i of the i-th record, windows one after another.
MakeDF(records, missing) ==
    [columns |-> NotIn(RawColumns, missing),
     rows |-> [i \in 1..Len(records) |->
                 [c \in Range(NotIn(RawColumns, missing)) |->
                     CASE c = "window_start" -> (i - 1) * window_size
                       [] c = "window_end" -> i * window_size
                       [] OTHER -> records[i][c]]]]

\* df[c] = F(row i), for every row: a new column is appended, an existing
\* one overwritten in place.
SetCol(d, c, F(_, _)) ==
    [columns |-> IF Has(d, c) THEN d.columns ELSE Append(d.columns, c),
     rows |-> [i \in 1..Len(d.rows) |-> (c :> F(d, i)) @@ d.rows[i]]]

\* Sum of column c over rows lo..hi.
RECURSIVE ColSum(_, _, _, _)
ColSum(d, c, lo, hi) ==
    IF lo > hi THEN 0 ELSE d.rows[hi][c] + ColSum(d, c, lo, hi - 1)

\* Mutant of RollingSum: the baseline leaves out the current window.
RollingSumPrevious(d, c, i, R) == ColSum(d, c, Max(1, i - R + 1), i - 1)

\* df[c].rolling(window=R, min_periods=1): the sum and the number of the
\* rows the window of row i covers (rows i-R+1..i, fewer at the start).
RollingSum(d, c, i, R) == ColSum(d, c, Max(1, i - R + 1), i)
RollingCount(i, R) == Min(i, R)

\* (df[c] - rolling.mean()) / (rolling.mean() + 1) at row i.
PctChange(d, c, i, R) ==
    LET n == RollingCount(i, R)
        sum == RollingSum(d, c, i, R)
    IN  Rat(n * d.rows[i][c] - sum, sum + n)

\* -(tcp * ln(tcp + 1e-6) + udp * ln(udp + 1e-6) + icmp * ln(icmp + 1e-6))
ProtocolDiversity(row) ==
    <<"-sum r*ln(r+1e-6)", row["tcp_ratio"], row["udp_ratio"],
      row["icmp_ratio"]>>

\* ---- scripts/train_behavioral_model.py: engineer_behavioral_features

TrainPct(d, R) ==
    IF Len(d.rows) >= R
    THEN LET a == SetCol(d, "pct_change_packets",
                    LAMBDA x, i : PctChange(x, "packet_count", i, R))
             b == SetCol(a, "pct_change_bytes_ps",
                    LAMBDA x, i : PctChange(x, "bytes_per_sec", i, R))
         IN  IF Has(b, "flow_count")
             THEN SetCol(b, "pct_change_flows",
                    LAMBDA x, i : PctChange(x, "flow_count", i, R))
             ELSE b
    ELSE LET a == SetCol(d, "pct_change_packets", LAMBDA x, i : Zero)
             b == SetCol(a, "pct_change_bytes_ps", LAMBDA x, i : Zero)
         IN  IF Has(b, "flow_count")
             THEN SetCol(b, "pct_change_flows", LAMBDA x, i : Zero)
             ELSE b

TrainEngineer(d, R) ==
    LET a == TrainPct(d, R)
        b == SetCol(a, "bytes_per_packet", LAMBDA x, i :
                 Rat(x.rows[i]["total_bytes"], x.rows[i]["packet_count"] + 1))
        c == SetCol(b, "src_ips_per_packet", LAMBDA x, i :
                 Rat(x.rows[i]["unique_src_ips"], x.rows[i]["packet_count"] + 1))
        e == SetCol(c, "dst_ips_per_packet", LAMBDA x, i :
                 Rat(x.rows[i]["unique_dst_ips"], x.rows[i]["packet_count"] + 1))
        f == IF Has(e, "flow_count")
             THEN SetCol(e, "flow_per_packet", LAMBDA x, i :
                 Rat(x.rows[i]["flow_count"], x.rows[i]["packet_count"] + 1))
             ELSE e
        g == IF Has(f, "max_packet_size") /\ Has(f, "min_packet_size")
             THEN SetCol(f, "packet_size_range", LAMBDA x, i :
                 Rat(x.rows[i]["max_packet_size"] - x.rows[i]["min_packet_size"],
                     x.rows[i]["avg_packet_size"] + 1))
             ELSE f
    IN  SetCol(g, "protocol_diversity",
               LAMBDA x, i : ProtocolDiversity(x.rows[i]))

\* ---- scripts/infer_behavioral_model.py: engineer_behavioral_features

InferPct(d, R) ==
    IF Len(d.rows) >= R
    THEN LET a == SetCol(d, "pct_change_packets",
                    LAMBDA x, i : PctChange(x, "packet_count", i, R))
             b == SetCol(a, "pct_change_bytes_ps",
                    LAMBDA x, i : PctChange(x, "bytes_per_sec", i, R))
         IN  IF Has(b, "flow_count")
             THEN SetCol(b, "pct_change_flows",
                    LAMBDA x, i : PctChange(x, "flow_count", i, R))
             ELSE b
    ELSE LET a == SetCol(d, "pct_change_packets", LAMBDA x, i : Zero)
             b == SetCol(a, "pct_change_bytes_ps", LAMBDA x, i : Zero)
         IN  IF Has(b, "flow_count")
             THEN SetCol(b, "pct_change_flows", LAMBDA x, i : Zero)
             ELSE b

InferEngineer(d, R) ==
    LET a == InferPct(d, R)
        b == SetCol(a, "bytes_per_packet", LAMBDA x, i :
                 Rat(x.rows[i]["total_bytes"], x.rows[i]["packet_count"] + 1))
        c == SetCol(b, "src_ips_per_packet", LAMBDA x, i :
                 Rat(x.rows[i]["unique_src_ips"], x.rows[i]["packet_count"] + 1))
        e == SetCol(c, "dst_ips_per_packet", LAMBDA x, i :
                 Rat(x.rows[i]["unique_dst_ips"], x.rows[i]["packet_count"] + 1))
        f == IF Has(e, "flow_count")
             THEN SetCol(e, "flow_per_packet", LAMBDA x, i :
                 Rat(x.rows[i]["flow_count"], x.rows[i]["packet_count"] + 1))
             ELSE e
        g == IF Has(f, "max_packet_size") /\ Has(f, "min_packet_size")
             THEN SetCol(f, "packet_size_range", LAMBDA x, i :
                 Rat(x.rows[i]["max_packet_size"] - x.rows[i]["min_packet_size"],
                     x.rows[i]["avg_packet_size"] + 1))
             ELSE f
    IN  SetCol(g, "protocol_diversity",
               LAMBDA x, i : ProtocolDiversity(x.rows[i]))

\* Mutant of ProductionEngineer: the production copy drifts from training
\* and guards the division the other way.
ProductionEngineerDrifted(d, R) ==
    SetCol(TrainEngineer(d, R), "bytes_per_packet", LAMBDA x, i :
        Rat(x.rows[i]["total_bytes"], Max(x.rows[i]["packet_count"], 1)))

\* ---- scripts/run_production_inference.py: engineer_behavioral_features

ProductionPct(d, R) ==
    IF Len(d.rows) >= R
    THEN LET a == SetCol(d, "pct_change_packets",
                    LAMBDA x, i : PctChange(x, "packet_count", i, R))
             b == SetCol(a, "pct_change_bytes_ps",
                    LAMBDA x, i : PctChange(x, "bytes_per_sec", i, R))
         IN  IF Has(b, "flow_count")
             THEN SetCol(b, "pct_change_flows",
                    LAMBDA x, i : PctChange(x, "flow_count", i, R))
             ELSE b
    ELSE LET a == SetCol(d, "pct_change_packets", LAMBDA x, i : Zero)
             b == SetCol(a, "pct_change_bytes_ps", LAMBDA x, i : Zero)
         IN  IF Has(b, "flow_count")
             THEN SetCol(b, "pct_change_flows", LAMBDA x, i : Zero)
             ELSE b

ProductionEngineer(d, R) ==
    LET a == ProductionPct(d, R)
        b == SetCol(a, "bytes_per_packet", LAMBDA x, i :
                 Rat(x.rows[i]["total_bytes"], x.rows[i]["packet_count"] + 1))
        c == SetCol(b, "src_ips_per_packet", LAMBDA x, i :
                 Rat(x.rows[i]["unique_src_ips"], x.rows[i]["packet_count"] + 1))
        e == SetCol(c, "dst_ips_per_packet", LAMBDA x, i :
                 Rat(x.rows[i]["unique_dst_ips"], x.rows[i]["packet_count"] + 1))
        f == IF Has(e, "flow_count")
             THEN SetCol(e, "flow_per_packet", LAMBDA x, i :
                 Rat(x.rows[i]["flow_count"], x.rows[i]["packet_count"] + 1))
             ELSE e
        g == IF Has(f, "max_packet_size") /\ Has(f, "min_packet_size")
             THEN SetCol(f, "packet_size_range", LAMBDA x, i :
                 Rat(x.rows[i]["max_packet_size"] - x.rows[i]["min_packet_size"],
                     x.rows[i]["avg_packet_size"] + 1))
             ELSE f
    IN  SetCol(g, "protocol_diversity",
               LAMBDA x, i : ProtocolDiversity(x.rows[i]))

\* ---- scripts/retrain_scale_robust.py: engineer_scale_robust_features

\* df['packet_count'].replace(0, 1)
ReplaceZero(n) == IF n = 0 THEN 1 ELSE n

ScaleRobustPct(d, R) ==
    IF Len(d.rows) >= R
    THEN LET a == SetCol(d, "pct_change_packet_count",
                    LAMBDA x, i : PctChange(x, "packet_count", i, R))
             b == SetCol(a, "pct_change_bytes_per_sec",
                    LAMBDA x, i : PctChange(x, "bytes_per_sec", i, R))
         IN  IF Has(b, "flow_count")
             THEN SetCol(b, "pct_change_flow_count",
                    LAMBDA x, i : PctChange(x, "flow_count", i, R))
             ELSE b
    ELSE LET a == SetCol(d, "pct_change_packet_count", LAMBDA x, i : Zero)
             b == SetCol(a, "pct_change_bytes_per_sec", LAMBDA x, i : Zero)
         IN  IF Has(b, "flow_count")
             THEN SetCol(b, "pct_change_flow_count", LAMBDA x, i : Zero)
             ELSE b

ScaleRobustEngineer(d, R) ==
    LET a == SetCol(d, "log_packet_count", LAMBDA x, i :
                 <<"log1p", x.rows[i]["packet_count"]>>)
        b == SetCol(a, "bytes_per_packet", LAMBDA x, i :
                 Rat(x.rows[i]["total_bytes"],
                     ReplaceZero(x.rows[i]["packet_count"])))
        c == ScaleRobustPct(b, R)
        e == SetCol(c, "src_ips_per_packet", LAMBDA x, i :
                 Rat(x.rows[i]["unique_src_ips"], x.rows[i]["packet_count"] + 1))
        f == SetCol(e, "dst_ips_per_packet", LAMBDA x, i :
                 Rat(x.rows[i]["unique_dst_ips"], x.rows[i]["packet_count"] + 1))
    IN  IF Has(f, "flow_count")
        THEN SetCol(f, "flow_per_packet", LAMBDA x, i :
                 Rat(x.rows[i]["flow_count"], x.rows[i]["packet_count"] + 1))
        ELSE f

\* ---- scripts/data_cleanup.py: clean_and_engineer_features

\* a / b followed by fillna(0) and replace([inf, -inf], 0): a division by
\* zero (inf, or NaN for 0 / 0) ends as 0.
CleanDiv(a, b) == IF b = 0 THEN Zero ELSE Rat(a, b)

\* np.divide(a, total, where=total != 0, out=zeros)
WhereDiv(a, total) == IF total # 0 THEN Rat(a, total) ELSE Zero

\* The columns clean_and_engineer_features reads with df[...]: a missing
\* one raises KeyError.
CleanNeeds ==
    {"packet_count", "total_bytes", "window_start", "window_end",
     "tcp_count", "udp_count", "icmp_count", "other_count",
     "unique_src_ips", "unique_dst_ips", "flow_count"}

CleanEngineer(d) ==
    LET a == SetCol(d, "packets_per_sec", LAMBDA x, i :
                 CleanDiv(x.rows[i]["packet_count"],
                          x.rows[i]["window_end"] - x.rows[i]["window_start"]))
        b == SetCol(a, "bytes_per_sec", LAMBDA x, i :
                 CleanDiv(x.rows[i]["total_bytes"],
                          x.rows[i]["window_end"] - x.rows[i]["window_start"]))
        c == SetCol(b, "tcp_ratio", LAMBDA x, i :
                 WhereDiv(x.rows[i]["tcp_count"], x.rows[i]["packet_count"]))
        e == SetCol(c, "udp_ratio", LAMBDA x, i :
                 WhereDiv(x.rows[i]["udp_count"], x.rows[i]["packet_count"]))
        f == SetCol(e, "icmp_ratio", LAMBDA x, i :
                 WhereDiv(x.rows[i]["icmp_count"], x.rows[i]["packet_count"]))
        g == SetCol(f, "other_ratio", LAMBDA x, i :
                 WhereDiv(x.rows[i]["other_count"], x.rows[i]["packet_count"]))
        h == SetCol(g, "protocol_entropy", LAMBDA x, i :
                 <<"-sum r*log2(r+1e-10)", x.rows[i]["tcp_ratio"],
                   x.rows[i]["udp_ratio"], x.rows[i]["icmp_ratio"],
                   x.rows[i]["other_ratio"]>>)
        k == SetCol(h, "ip_diversity", LAMBDA x, i :
                 Rat(x.rows[i]["unique_src_ips"] + x.rows[i]["unique_dst_ips"], 2))
    IN  SetCol(k, "flow_density", LAMBDA x, i :
                 WhereDiv(x.rows[i]["flow_count"], x.rows[i]["packet_count"]))

\* ---- the column selectors

\* Mutant of SelectColumns: the first listed feature is dropped whenever
\* more than one is available.
SelectColumnsDropFirst(d, features) ==
    LET available == SelectSeq(features, LAMBDA f : Has(d, f))
        kept == IF Len(available) > 1 THEN Tail(available) ELSE available
    IN  [columns |-> kept,
         rows |-> [i \in 1..Len(d.rows) |->
                     [c \in Range(kept) |-> d.rows[i][c]]]]

\* available = [f for f in features if f in df.columns]; df[available]
SelectColumns(d, features) ==
    LET available == SelectSeq(features, LAMBDA f : Has(d, f))
    IN  [columns |-> available,
         rows |-> [i \in 1..Len(d.rows) |->
                     [c \in Range(available) |-> d.rows[i][c]]]]

\* data_cleanup.select_features with feature_list=None
select_features(d) ==
    SelectColumns(d,
        <<"packet_count", "total_bytes", "avg_packet_size", "min_packet_size",
          "max_packet_size", "packet_size_std", "tcp_count", "udp_count",
          "icmp_count", "other_count", "tcp_ratio", "udp_ratio", "icmp_ratio",
          "other_ratio", "unique_src_ips", "unique_dst_ips", "flow_count",
          "packets_per_sec", "bytes_per_sec", "protocol_entropy",
          "ip_diversity", "flow_density", "avg_flow_packets",
          "avg_flow_bytes">>)

\* train_behavioral_model.select_behavioral_features (the DataFrame of the
\* returned pair)
select_behavioral_features(d) ==
    SelectColumns(d,
        <<"pct_change_packets", "pct_change_bytes_ps", "pct_change_flows",
          "bytes_per_packet", "tcp_ratio", "udp_ratio", "icmp_ratio",
          "src_ips_per_packet", "dst_ips_per_packet", "flow_per_packet",
          "protocol_diversity", "packet_size_range">>)

\* retrain_scale_robust.select_ml_features (the DataFrame of the returned
\* pair); flow_per_packet is listed only when the input has it.
select_ml_features(d) ==
    SelectColumns(d,
        <<"log_packet_count", "bytes_per_packet", "pct_change_packet_count",
          "pct_change_bytes_per_sec", "tcp_ratio", "udp_ratio", "icmp_ratio",
          "src_ips_per_packet", "dst_ips_per_packet">>
        \o (IF Has(d, "flow_per_packet") THEN <<"flow_per_packet">> ELSE <<>>))

\* ---- the feature-engineering runs

Paths == {"train_behavioral", "infer_behavioral", "production_behavioral",
          "scale_robust", "clean"}
BehavioralPaths ==
    {"train_behavioral", "infer_behavioral", "production_behavioral"}

\* rolling_window values: 10 is the default and what the behavioural
\* scripts pass, 5 what retrain_scale_robust passes, 3 a short one.
RollingWindows == {3, 5, 10}

\* Mutant of Engineer: windows without packets are dropped from the result.
EngineerDropsEmptyWindows(path, d, R) ==
    LET e == CASE path = "train_behavioral" -> TrainEngineer(d, R)
               [] path = "infer_behavioral" -> InferEngineer(d, R)
               [] path = "production_behavioral" -> ProductionEngineer(d, R)
               [] path = "scale_robust" -> ScaleRobustEngineer(d, R)
               [] OTHER -> CleanEngineer(d)
    IN  [e EXCEPT !.rows =
            SelectSeq(e.rows, LAMBDA row : row["packet_count"] # 0)]

Engineer(path, d, R) ==
    CASE path = "train_behavioral" -> TrainEngineer(d, R)
      [] path = "infer_behavioral" -> InferEngineer(d, R)
      [] path = "production_behavioral" -> ProductionEngineer(d, R)
      [] path = "scale_robust" -> ScaleRobustEngineer(d, R)
      [] OTHER -> CleanEngineer(d)

\* The selector each script applies to its engineered DataFrame.
Selector(path, d) ==
    CASE path \in BehavioralPaths -> select_behavioral_features(d)
      [] path = "scale_robust" -> select_ml_features(d)
      [] OTHER -> select_features(d)

EmptyDF == [columns |-> <<>>, rows |-> <<>>]
NotRun == [stage |-> "raw", path |-> "none", rolling_window |-> 0,
           out |-> EmptyDF]

\* One of the engineering functions is called on df.
EngineerCall ==
    /\ fe_out.stage = "raw"
    /\ \E path \in Paths, R \in RollingWindows :
         /\ path = "clean" => R = 10
         /\ fe_out' =
              IF path = "clean" /\ ~(CleanNeeds \subseteq Range(df.columns))
              THEN [NotRun EXCEPT !.stage = "KeyError", !.path = path]
              ELSE [stage |-> "engineered", path |-> path,
                    rolling_window |-> R, out |-> Engineer(path, df, R)]
    /\ UNCHANGED df
    /\ UNCHANGED <<loop_vars, helper_vars, attribution, driver_vars>>

\* The script's selector is applied to the engineered DataFrame.
SelectCall ==
    /\ fe_out.stage = "engineered"
    /\ fe_out' = [fe_out EXCEPT !.stage = "selected",
                                !.out = Selector(fe_out.path, fe_out.out)]
    /\ UNCHANGED df
    /\ UNCHANGED <<loop_vars, helper_vars, attribution, driver_vars>>

\* The window-record sequences explored: every sequence of up to
\* MaxWindows records, and the ten-window sequence 10, ..., 10, 100.
TenWindows ==
    LET ten == CHOOSE r \in WindowRecords : r.packet_count = 10
        hundred == CHOOSE r \in WindowRecords : r.packet_count = 100
    IN  [i \in 1..10 |-> IF i < 10 THEN ten ELSE hundred]

RecordSequences ==
    UNION {[1..n -> WindowRecords] : n \in 0..MaxWindows} \cup {TenWindows}

FeatureIdle ==
    /\ df = EmptyDF
    /\ fe_out = NotRun

FeatureInit ==
    /\ \E records \in RecordSequences, missing \in Schemas :
         df = MakeDF(records, missing)
    /\ fe_out = NotRun

\* ------------------------------------------ contributing-feature attribution
\* backend/ml/production_inference.py: calculate_contributing_features.
\* Feature values, medians, MADs and deviations are exact rationals.

MaxRows == 3

RatSub(a, b) == Rat(a[1] * b[2] - b[1] * a[2], a[2] * b[2])
RatAdd(a, b) == Rat(a[1] * b[2] + b[1] * a[2], a[2] * b[2])
RatAbs(a) == <<Abs(a[1]), a[2]>>
RatDiv(a, b) == Rat(a[1] * b[2], a[2] * b[1])
RatLess(a, b) == a[1] * b[2] < b[1] * a[2]
One == <<1, 1>>

\* The k-th smallest element of a non-empty sequence of rationals.
KthSmallest(s, k) ==
    CHOOSE v \in Range(s) :
        /\ Cardinality({j \in 1..Len(s) : RatLess(s[j], v)}) < k
        /\ Cardinality({j \in 1..Len(s) : ~RatLess(v, s[j])}) >= k

\* float('nan'), as the fraction 0/0.
NaN == <<0, 0>>

\* Series.median(): the middle value, or the mean of the two middle ones;
\* NaN for an empty series.
Median(s) ==
    LET n == Len(s)
    IN  IF n = 0 THEN NaN
        ELSE IF n % 2 = 1 THEN KthSmallest(s, (n + 1) \div 2)
        ELSE RatDiv(RatAdd(KthSmallest(s, n \div 2),
                           KthSmallest(s, n \div 2 + 1)), <<2, 1>>)

Column(d, c) == [i \in 1..Len(d.rows) |-> d.rows[i][c]]

\* medians = df_features.median(), per column
medians(d) == [c \in Range(d.columns) |-> Median(Column(d, c))]

\* mads = (df_features - medians).abs().median(), per column
mads(d, med) ==
    [c \in Range(d.columns) |->
        Median([i \in 1..Len(d.rows) |->
                   RatAbs(RatSub(d.rows[i][c], med[c]))])]

\* mad = mads[col] if mads[col] > 0 else 1
MadOrOne(mad) == IF RatLess(Zero, mad) THEN mad ELSE One

\* deviations[col] = abs(value - median) / mad, for the columns of one row
deviations(row, cols, med, mad) ==
    [c \in cols |->
        RatDiv(RatAbs(RatSub(row[c], med[c])), MadOrOne(mad[c]))]

\* Position of a column in df_features.columns.
ColIndex(d, c) == CHOOSE k \in 1..Len(d.columns) : d.columns[k] = c

\* sorted(deviations.items(), key=lambda x: x[1], reverse=True): the number
\* of columns sorted before c.  The sort is stable, so columns of equal
\* deviation keep their column order.
SortedBefore(d, dev, c) ==
    Cardinality({o \in Range(d.columns) :
        \/ RatLess(dev[c], dev[o])
        \/ dev[o] = dev[c] /\ ColIndex(d, o) < ColIndex(d, c)})

\* Mutant of top_features: the list is not cut at top_n.
top_features_uncut(d, dev, top_n) == Range(d.columns)

\* [:top_n]
top_features(d, dev, top_n) ==
    {c \in Range(d.columns) : SortedBefore(d, dev, c) < top_n}

RECURSIVE RatSum(_, _)
RatSum(F, S) ==
    IF S = {} THEN Zero
    ELSE LET c == CHOOSE x \in S : TRUE
         IN  RatAdd(F[c], RatSum(F, S \ {c}))

\* round(x * 100, 1) for x = a / b >= 0, in tenths of a percent: the
\* nearest tenth, a tie going to the even one.
RoundTenths(a, b) ==
    LET q == (1000 * a) \div b
        r == (1000 * a) % b
    IN  IF 2 * r < b THEN q
        ELSE IF 2 * r > b THEN q + 1
        ELSE IF q % 2 = 0 THEN q ELSE q + 1

EmptyEntry == [c \in {} |-> 0]

\* The entry of an anomalous row: feature -> percentage (in tenths of a
\* percent) of the top_n deviations, or {} when they sum to 0.
contributing_features(d, dev, top_n) ==
    LET top == top_features(d, dev, top_n)
        total_deviation == RatSum(dev, top)
    IN  IF RatLess(Zero, total_deviation)
        THEN [c \in top |->
                 LET x == RatDiv(dev[c], total_deviation)
                 IN  RoundTenths(x[1], x[2])]
        ELSE EmptyEntry

\* The one element of a singleton set (used to compute a value once and
\* name it).
Only(S) == CHOOSE x \in S : TRUE

\* The local `deviations` of every anomalous row ({} for the other rows,
\* for which it is not computed).
row_deviations(d, predictions) ==
    Only({ [idx \in 1..Len(d.rows) |->
              IF predictions[idx] = -1
              THEN deviations(d.rows[idx], Range(d.columns), med, mad)
              ELSE EmptyEntry] :
           med \in {medians(d)}, mad \in {mads(d, medians(d))} })

calculate_contributing_features(d, predictions, top_n) ==
    Only({ [idx \in 1..Len(d.rows) |->
              IF predictions[idx] = -1
              THEN contributing_features(d, devs[idx], top_n)
              ELSE EmptyEntry] :
           devs \in {row_deviations(d, predictions)} })

\* The feature frames explored: three of the engineered columns, with the
\* values each may take.
AttrColumns == <<"tcp_ratio", "udp_ratio", "pct_change_packets">>
AttrValues(c) ==
    CASE c = "tcp_ratio" -> {Zero, <<1, 2>>}
      [] c = "udp_ratio" -> {Zero, One}
      [] OTHER -> {Zero, <<3, 1>>}
AttrRows ==
    {row \in [Range(AttrColumns) -> {Zero, <<1, 2>>, One, <<3, 1>>}] :
        \A c \in Range(AttrColumns) : row[c] \in AttrValues(c)}

\* top_n: the default 5, and 2 (fewer than the columns).
TopNs == {2, 5}

NotCalculated ==
    [stage |-> "idle", df_features |-> EmptyDF, predictions |-> <<>>,
     top_n |-> 0, deviations |-> <<>>, result |-> <<>>]

AttributionIdle == attribution = NotCalculated

\* A feature frame and the model's labels for it (-1 anomaly, 1 normal).
AttributionInit ==
    \E n \in 0..MaxRows :
        \E rows \in [1..n -> AttrRows], predictions \in [1..n -> {-1, 1}] :
            attribution =
                [NotCalculated EXCEPT
                    !.stage = "predicted",
                    !.df_features = [columns |-> AttrColumns, rows |-> rows],
                    !.predictions = predictions]

CalculateCall ==
    /\ attribution.stage = "predicted"
    /\ \E top_n \in TopNs :
         attribution' =
            [attribution EXCEPT
                !.stage = "attributed",
                !.top_n = top_n,
                !.deviations = row_deviations(attribution.df_features,
                                              attribution.predictions),
                !.result = calculate_contributing_features(
                               attribution.df_features,
                               attribution.predictions, top_n)]
    /\ UNCHANGED <<loop_vars, helper_vars, fe_vars, driver_vars>>


\* ----------------------------------------------------- specifications

\* ----------------------------------------------------- the chunked drivers
\* scripts/process_large_pcap.py: a large capture is split into chunk
\* files, the extractor runs on every chunk, and the per-chunk feature
\* JSONs are concatenated.  The extractor binary the driver starts is not
\* part of the sources; a chunk is extracted as tests/test_system.py
\* extracts a capture.  Byte quantities are scaled down: a pcap file is its
\* 24-byte header plus, per packet, a 16-byte record header and the frame.

\* "Window-based feature extraction" of a whole packet list, from the first
\* packet to "Add last window".
RECURSIVE ExtractFrom(_, _, _)
ExtractFrom(cw, ws, pkts) ==
    IF pkts = <<>> THEN EmitWindow(cw, ws)
    ELSE LET r == Iterate(cw, ws, Head(pkts))
         IN  ExtractFrom(r.cw, r.ws, Tail(pkts))

Extract(pkts) ==
    IF Len(pkts) > 0 THEN ExtractFrom(InitWindow(pkts[1].time), <<>>, pkts)
    ELSE <<>>

\* current_chunk_path.stat().st_size of a pcap file holding pkts
RECURSIVE st_size(_)
st_size(pkts) ==
    IF pkts = <<>> THEN 24 ELSE 16 + Head(pkts).len + st_size(Tail(pkts))

\* CHUNK_CHECK_INTERVAL (10000 in the script), chunk_size_bytes (--chunk-mb,
\* 500 MB by default) and the 1 GB size from which main splits, scaled to
\* captures of a few packets.
CheckIntervals == {1, 2}
ChunkSizes == {150, 400}
SplitFrom == 250

\* The captures given to the driver: up to MaxPackets frames in time order.
ChunkFrames == {f \in Frames : f.kind \in {"TCP", "UDP"} /\ f.sport # 0}
ChunkGaps == {g \in Gaps : g >= 0}
RECURSIVE CapturesOfLen(_)
CapturesOfLen(n) ==
    IF n = 1 THEN {<<WithTime(f, t)>> : f \in ChunkFrames, t \in FirstTimes}
    ELSE {Append(c, WithTime(f, c[Len(c)].time + g)) :
             c \in CapturesOfLen(n - 1), f \in ChunkFrames, g \in ChunkGaps}
Captures == UNION {CapturesOfLen(n) : n \in 1..MaxPackets}

NotChunked ==
    [stage |-> "idle", capture |-> <<>>, interval |-> 0,
     chunk_size_bytes |-> 0, i |-> 0, writer |-> <<>>,
     chunk_paths |-> <<>>, feature_files |-> <<>>, merged |-> <<>>]

\* main is started on a capture file.
ChunkedInit ==
    \E capture \in Captures, interval \in CheckIntervals,
       size \in ChunkSizes :
        chunked = [NotChunked EXCEPT !.stage = "main", !.capture = capture,
                                     !.interval = interval,
                                     !.chunk_size_bytes = size]

\* main, step 1, a file below the split size: chunks = [pcap].
NoSplit ==
    /\ chunked.stage = "main"
    /\ st_size(chunked.capture) < SplitFrom
    /\ chunked' = [chunked EXCEPT !.stage = "extract",
                                  !.chunk_paths = <<chunked.capture>>]
    /\ UNCHANGED <<analysis_vars, session, upload, insight>>

\* main, step 1, a large file: split_pcap_stream is entered.
StartSplit ==
    /\ chunked.stage = "main"
    /\ st_size(chunked.capture) >= SplitFrom
    /\ chunked' = [chunked EXCEPT !.stage = "split", !.i = 1]
    /\ UNCHANGED <<analysis_vars, session, upload, insight>>

\* One iteration of split_pcap_stream's loop: the packet is written to the
\* open chunk (opened if there is none); every `interval` packets the
\* chunk's size is checked and the chunk closed once it is large enough.
SplitPacket ==
    /\ chunked.stage = "split"
    /\ chunked.i <= Len(chunked.capture)
    /\ LET written == Append(chunked.writer, chunked.capture[chunked.i])
           full == /\ Len(written) % chunked.interval = 0
                   /\ st_size(written) >= chunked.chunk_size_bytes
       IN  chunked' =
             [chunked EXCEPT
                !.i = @ + 1,
                !.writer = IF full THEN <<>> ELSE written,
                !.chunk_paths = IF full THEN Append(@, written) ELSE @]
    /\ UNCHANGED <<analysis_vars, session, upload, insight>>

\* The end of the loop and the `finally`: an open chunk is closed and
\* listed.
SplitFinish ==
    /\ chunked.stage = "split"
    /\ chunked.i > Len(chunked.capture)
    /\ chunked' =
         [chunked EXCEPT
            !.stage = "extract",
            !.writer = <<>>,
            !.chunk_paths = IF chunked.writer # <<>>
                            THEN Append(@, chunked.writer) ELSE @]
    /\ UNCHANGED <<analysis_vars, session, upload, insight>>

\* main, step 2: the extractor runs on the next chunk.
ExtractChunk ==
    /\ chunked.stage = "extract"
    /\ Len(chunked.feature_files) < Len(chunked.chunk_paths)
    /\ chunked' =
         [chunked EXCEPT !.feature_files =
             Append(@, Extract(chunked.chunk_paths[Len(@) + 1]))]
    /\ UNCHANGED <<analysis_vars, session, upload, insight>>

RECURSIVE Concat(_)
Concat(lists) ==
    IF lists = <<>> THEN <<>> ELSE Head(lists) \o Concat(Tail(lists))

\* process_large_pcap.merge_feature_jsons: merged.extend(data), file by
\* file in the order given.
merge_feature_jsons(json_paths) == Concat(json_paths)

\* main, step 3.
MergeChunks ==
    /\ chunked.stage = "extract"
    /\ Len(chunked.feature_files) = Len(chunked.chunk_paths)
    /\ chunked' = [chunked EXCEPT
                     !.stage = "merged",
                     !.merged = merge_feature_jsons(chunked.feature_files)]
    /\ UNCHANGED <<analysis_vars, session, upload, insight>>

ChunkedNext ==
    \/ NoSplit
    \/ StartSplit
    \/ SplitPacket
    \/ SplitFinish
    \/ ExtractChunk
    \/ MergeChunks

\* scripts/extract_merge_analyze.py: the chunk files of a directory are
\* extracted and merged.  The files are those split_pcap_stream writes,
\* "<stem>_part<idx>.pcap"; a file name is kept as what follows "_part",
\* as a list of character codes.

MaxChunks == 11

\* str(idx): the decimal digits, as character codes ('0' is 48).
RECURSIVE Digits(_)
Digits(k) ==
    IF k < 10 THEN <<48 + k>> ELSE Append(Digits(k \div 10), 48 + (k % 10))

\* ".pcap" and "_features.json"
DotPcap == <<46, 112, 99, 97, 112>>
FeaturesJson == <<95, 102, 101, 97, 116, 117, 114, 101, 115, 46, 106, 115,
                  111, 110>>

\* f"{in_pcap.stem}_part{chunk_idx}.pcap"
ChunkName(idx) == Digits(idx) \o DotPcap

\* f"{pcap.stem}_features.json": the stem is the name without ".pcap".
FeaturesName(pcap) ==
    SubSeq(pcap, 1, Len(pcap) - Len(DotPcap)) \o FeaturesJson

\* a < b for two strings (and so for two paths of one directory).
RECURSIVE StrLess(_, _)
StrLess(a, b) ==
    IF b = <<>> THEN FALSE
    ELSE IF a = <<>> THEN TRUE
    ELSE IF Head(a) # Head(b) THEN Head(a) < Head(b)
    ELSE StrLess(Tail(a), Tail(b))

\* sorted(paths): `files` is a list of [name, ...] records of distinct names.
Sorted(files) ==
    [k \in 1..Len(files) |->
        CHOOSE f \in Range(files) :
            Cardinality({g \in Range(files) : StrLess(g.name, f.name)})
                = k - 1]

\* The feature records of chunk idx of the capture: chunk idx holds the
\* packets of its own stretch of time, `per_chunk` of them, 70 s apart.
ChunkPackets(idx, per_chunk) ==
    [j \in 1..per_chunk |->
        WithTime(CHOOSE f \in Frames : f.kind = "UDP",
                 (idx - 1) * 200 + (j - 1) * 70)]

NoChunkDir ==
    [stage |-> "idle", dir |-> <<>>, pcap_files |-> <<>>,
     feature_files |-> <<>>, merged |-> <<>>]

\* main is started on a directory holding the chunks of a split capture.
ChunkDirInit ==
    \E n \in 1..MaxChunks, per_chunk \in {1, 2} :
        chunked = [NoChunkDir EXCEPT
                     !.stage = "main",
                     !.dir = [idx \in 1..n |->
                                [name |-> ChunkName(idx),
                                 packets |-> ChunkPackets(idx, per_chunk)]]]

\* pcap_files = sorted(chunks_dir.glob('*.pcap'))
GlobChunks ==
    /\ chunked.stage = "main"
    /\ chunked' = [chunked EXCEPT !.stage = "extract",
                                  !.pcap_files = Sorted(chunked.dir)]
    /\ UNCHANGED <<analysis_vars, session, upload, insight>>

\* Step 1, one chunk: run_rust_extractor(pcap, out_json);
\* feature_files.append(out_json)
ExtractChunkFile ==
    /\ chunked.stage = "extract"
    /\ Len(chunked.feature_files) < Len(chunked.pcap_files)
    /\ LET pcap == chunked.pcap_files[Len(chunked.feature_files) + 1]
       IN  chunked' =
             [chunked EXCEPT !.feature_files =
                 Append(@, [name |-> FeaturesName(pcap.name),
                            data |-> Extract(pcap.packets)])]
    /\ UNCHANGED <<analysis_vars, session, upload, insight>>

\* extract_merge_analyze.merge_feature_jsons: for p in sorted(json_paths):
\* merged.extend(data)
merge_sorted_feature_jsons(json_paths) ==
    LET ordered == Sorted(json_paths)
    IN  Concat([k \in 1..Len(ordered) |-> ordered[k].data])

\* Step 2.
MergeChunkFiles ==
    /\ chunked.stage = "extract"
    /\ Len(chunked.feature_files) = Len(chunked.pcap_files)
    /\ chunked' =
         [chunked EXCEPT
            !.stage = "merged",
            !.merged = merge_sorted_feature_jsons(chunked.feature_files)]
    /\ UNCHANGED <<analysis_vars, session, upload, insight>>

ChunkDirNext ==
    \/ GlobChunks
    \/ ExtractChunkFile
    \/ MergeChunkFiles

\* ------------------------------------------ backend/insight/generator.py
\* A record is a function from field name to value; a field the dictionary
\* lacks is outside its DOMAIN.  Scores are integers (a fixed-point detector
\* score); a confidence is an exact rational <<n, d>>.

\* self._safe_float(r.get("score")): float(None) raises TypeError, caught,
\* and the result is 0.0.
safe_score(r) == IF "score" \in DOMAIN r THEN r.score ELSE 0

\* _score_stats (the mean is not modelled).
score_stats(scores) == [min |-> SeqMin(scores), max |-> SeqMax(scores)]

\* _is_anomaly: score <= min + (max - min) * 0.2, times 5 on both sides.
is_anomaly(record, st) ==
    IF "is_anomaly" \in DOMAIN record THEN record.is_anomaly
    ELSE IF "anomaly" \in DOMAIN record THEN record.anomaly = -1
    ELSE IF st.min = st.max THEN FALSE
    ELSE 5 * safe_score(record) <= 5 * st.min + (st.max - st.min)

\* max(0.0, min(1.0, normalized))
Clamp01(x) == IF RatLess(x, Zero) THEN Zero ELSE IF RatLess(One, x) THEN One ELSE x

\* _score_to_confidence
score_to_confidence(score, st) ==
    IF st.min = st.max THEN <<1, 2>>
    ELSE Clamp01(Rat(st.max - score, st.max - st.min))

\* _severity_from_confidence: thresholds 0.85, 0.7, 0.5
severity_from_confidence(confidence) ==
    IF confidence[1] * 100 >= 85 * confidence[2] THEN "Critical"
    ELSE IF confidence[1] * 10 >= 7 * confidence[2] THEN "High"
    ELSE IF confidence[1] * 2 >= confidence[2] THEN "Medium"
    ELSE "Low"

\* scored_records.sort(key=lambda x: x[0]): the indices of the records in
\* ascending score order; list.sort is stable, so equal scores keep their
\* list order.
sort_by_score(scores) ==
    LET before(j, i) == scores[j] < scores[i] \/ (scores[j] = scores[i] /\ j < i)
    IN  [k \in 1..Len(scores) |->
            CHOOSE i \in 1..Len(scores) :
                Cardinality({j \in 1..Len(scores) : before(j, i)}) = k - 1]

\* top_candidates without the cut.
top_candidates_uncut(sorted, anomalies, max_alerts) ==
    LET flagged == SelectSeq(sorted, LAMBDA i : anomalies[i])
    IN  IF flagged = <<>> THEN sorted ELSE flagged

\* top_candidates: the anomalous entries of the sorted list, or the whole
\* sorted list when none is anomalous, cut to max_alerts.
top_candidates(sorted, anomalies, max_alerts) ==
    LET flagged == SelectSeq(sorted, LAMBDA i : anomalies[i])
        chosen == IF flagged = <<>> THEN sorted ELSE flagged
    IN  SubSeq(chosen, 1, Min(max_alerts, Len(chosen)))

\* _build_insight: idx is the record's 0-based list index (the summary
\* names "Window idx + 1").
build_insight(idx, score, st) ==
    LET confidence == score_to_confidence(score, st)
    IN  [idx |-> idx, score |-> score, confidence |-> confidence,
         severity |-> severity_from_confidence(confidence)]

\* InsightGenerator(max_alerts).generate(records)
generate(records, max_alerts) ==
    IF records = <<>>
    THEN [alerts |-> <<>>, stats |-> [total_windows |-> 0, anomalies |-> 0]]
    ELSE
      LET scores == [k \in 1..Len(records) |-> safe_score(records[k])]
          st == score_stats(scores)
          anomalies == [k \in 1..Len(records) |-> is_anomaly(records[k], st)]
          top == top_candidates(sort_by_score(scores), anomalies, max_alerts)
      IN  [alerts |-> [k \in 1..Len(top) |->
                          build_insight(top[k] - 1, scores[top[k]], st)],
           stats |-> [total_windows |-> Len(records),
                      anomalies |->
                         Cardinality({k \in 1..Len(records) : anomalies[k]}),
                      score_min |-> st.min,
                      score_max |-> st.max]]

\* ---------------------------------------------- backend/api/routes.py
\* One upload and its background task.  Every repository call commits in
\* its own connection (repository._fetch_one), so each state below is one
\* a concurrent reader of the session can see.

\* Most window records of a session explored.
MaxRecords == 3

\* Exit codes of the extractor process: 0, 3 (pcapng input), 5.
ExitCodes == {0, 3, 5}

\* Fixed-point anomaly scores of the detector.
DetectorScores == {-3, -1, 2}

\* The id the traffic_windows table gives the session's first row (the
\* table's serial, shared with the other sessions).
FirstRowIds == {1, 7}

\* results["detailed_results"].to_dict(orient="records"): the extractor's
\* record with the columns predict_with_feature_engineering adds.
DetailedRecord(k, score, anomalous) ==
    [window_start |-> window_size * (k - 1),
     anomaly |-> IF anomalous THEN -1 ELSE 1,
     anomaly_score |-> score,
     is_anomaly |-> anomalous]

RECURSIVE DetailedResultsOfLen(_)
DetailedResultsOfLen(n) ==
    IF n = 0 THEN {<<>>}
    ELSE { Append(rs, DetailedRecord(n, s, a)) :
             rs \in DetailedResultsOfLen(n - 1),
             s \in DetectorScores, a \in BOOLEAN }

DetailedResults == UNION {DetailedResultsOfLen(n) : n \in 1..MaxRecords}

NoReport == [alerts |-> <<>>, stats |-> [total_windows |-> 0, anomalies |-> 0]]

NoSession ==
    [stage |-> "idle", status |-> "none", error_message |-> "",
     response |-> "none", extractor |-> "not run", returncode |-> 0,
     inferred |-> FALSE, records |-> <<>>, idx |-> 0, next_id |-> 0,
     traffic_windows |-> <<>>, anomaly_results |-> <<>>,
     report |-> NoReport, insights |-> 0]

\* run_rust_extractor ignoring the exit code.
run_rust_extractor_unchecked(returncode) == "features"

\* run_rust_extractor: the features path, or RuntimeError when the
\* process exits with a non-zero code.
run_rust_extractor(returncode) ==
    IF returncode # 0 THEN "raised" ELSE "features"

\* `import datetime` binds the module, and the module has no attribute
\* `now`: evaluating datetime.now(datetime.timezone.utc) raises
\* AttributeError.
ModuleHasNow == FALSE

\* The except branch of upload_pcap: the dictionary passed to
\* update_pcap_session is built first; when building it raises, the update
\* is never made.
upload_failed(row) ==
    IF ModuleHasNow
    THEN [row EXCEPT !.status = "failed", !.error_message = "save_upload_file"]
    ELSE row

\* The except branch of _process_session.
process_failed(row, exc) ==
    [row EXCEPT !.stage = "done", !.status = "failed", !.error_message = exc]

\* window_id = idx
window_id_zero_based(idx) == idx

\* window_id = idx + 1
window_id_of(idx) == idx + 1

\* _build_traffic_window_data and the row INSERT ... RETURNING * gives back.
traffic_window_row(id, window_id, record) ==
    [id |-> id, window_id |-> window_id, window_start |-> record.window_start]

\* _build_anomaly_result_data
anomaly_result_row(window_id, traffic_window_id, record) ==
    [window_id |-> window_id,
     traffic_window_id |-> traffic_window_id,
     is_anomaly |-> IF "is_anomaly" \in DOMAIN record
                    THEN record.is_anomaly ELSE record.anomaly = -1,
     anomaly_score |-> record.anomaly_score,
     window_start |-> record.window_start]

\* upload_pcap: the session row is created with status "processing", then
\* the upload is saved and the background task added.
UploadPcap ==
    /\ session.stage = "idle"
    /\ \E saved \in BOOLEAN, first_id \in FirstRowIds :
         LET row == [session EXCEPT !.status = "processing",
                                    !.next_id = first_id]
         IN  session' =
               IF saved
               THEN [row EXCEPT !.stage = "scheduled", !.response = "200"]
               ELSE [upload_failed(row) EXCEPT
                        !.stage = "done", !.response = "500"]
    /\ UNCHANGED <<analysis_vars, chunked, upload, insight>>

\* _process_session up to its first write: extraction, inference and the
\* update_pcap_session that sets status "completed", or the except branch.
ProcessSession ==
    /\ session.stage = "scheduled"
    /\ \E returncode \in ExitCodes, predicted \in BOOLEAN,
          records \in DetailedResults :
         LET extractor == run_rust_extractor(returncode)
             ran == [session EXCEPT !.extractor = extractor,
                                    !.returncode = returncode]
         IN  \/ /\ extractor = "raised"
                /\ predicted /\ Len(records) = 1
                /\ session' = process_failed(ran, "Extractor failed")
             \/ /\ extractor = "features"
                /\ ~predicted /\ Len(records) = 1
                /\ session' = process_failed([ran EXCEPT !.inferred = TRUE],
                                             "predict")
             \/ /\ extractor = "features"
                /\ predicted
                /\ session' = [ran EXCEPT !.inferred = TRUE,
                                          !.records = records,
                                          !.status = "completed",
                                          !.stage = "inserting"]
    /\ UNCHANGED <<analysis_vars, chunked, upload, insight>>

\* One iteration of `for idx, record in enumerate(records)`: the traffic
\* window is inserted, then the anomaly result; either insert may raise.
InsertWindow ==
    /\ session.stage = "inserting"
    /\ session.idx < Len(session.records)
    /\ \E raised \in {"none", "create_traffic_window", "create_anomaly_result"} :
         LET record == session.records[session.idx + 1]
             window_id == window_id_of(session.idx)
             window_row == traffic_window_row(session.next_id, window_id, record)
             inserted == [session EXCEPT
                            !.traffic_windows = Append(@, window_row),
                            !.next_id = @ + 1]
         IN  session' =
               CASE raised = "create_traffic_window" ->
                      process_failed(session, raised)
                 [] raised = "create_anomaly_result" ->
                      process_failed(inserted, raised)
                 [] OTHER ->
                      [inserted EXCEPT
                         !.idx = @ + 1,
                         !.anomaly_results =
                            Append(@, anomaly_result_row(window_id,
                                                         window_row.id, record))]
    /\ UNCHANGED <<analysis_vars, chunked, upload, insight>>

\* InsightGenerator(max_alerts=5).generate(records) and the create_insight
\* calls: the summary, then one row per alert.
StoreInsights ==
    /\ session.stage = "inserting"
    /\ session.idx = Len(session.records)
    /\ \E raised \in BOOLEAN :
         LET report == generate(session.records, 5)
         IN  session' =
               IF raised
               THEN process_failed([session EXCEPT !.report = report],
                                   "create_insight")
               ELSE [session EXCEPT !.stage = "done",
                                    !.report = report,
                                    !.insights = 1 + Len(report.alerts)]
    /\ UNCHANGED <<analysis_vars, chunked, upload, insight>>

SessionNext ==
    \/ UploadPcap
    \/ ProcessSession
    \/ InsertWindow
    \/ StoreInsights

\* ---- InsightGenerator.generate applied to a list of records

\* Longest record list handed to generate.
MaxInsightRecords == 3

\* The max_alerts settings explored (the default is 5).
MaxAlerts == {1, 2, 5}

\* Records with and without a score, and with is_anomaly, with anomaly or
\* with neither.
ScoredRecords ==
    LET flag == {[is_anomaly |-> TRUE], [is_anomaly |-> FALSE],
                 [anomaly |-> -1], [packet_count |-> 10]}
        score == {[score |-> s] : s \in DetectorScores}
    IN  flag \cup {f @@ s : f \in flag, s \in score}

RECURSIVE ScoredRecordsOfLen(_)
ScoredRecordsOfLen(n) ==
    IF n = 0 THEN {<<>>}
    ELSE { Append(rs, r) : rs \in ScoredRecordsOfLen(n - 1), r \in ScoredRecords }

NoInsight ==
    [stage |-> "idle", records |-> <<>>, max_alerts |-> 0, report |-> NoReport]

InsightInit ==
    \E n \in 0..MaxInsightRecords :
       \E records \in ScoredRecordsOfLen(n), max_alerts \in MaxAlerts :
          insight = [NoInsight EXCEPT !.stage = "constructed",
                                      !.records = records,
                                      !.max_alerts = max_alerts]

\* InsightGenerator(max_alerts).generate(records)
GenerateCall ==
    /\ insight.stage = "constructed"
    /\ insight' = [insight EXCEPT
                      !.stage = "generated",
                      !.report = generate(insight.records, insight.max_alerts)]
    /\ UNCHANGED <<analysis_vars, chunked, session, upload>>

InsightNext == GenerateCall

\* ------------------------------------- backend/ingestion/pcap_loader.py
\* save_upload_file, with sizes in units of 4 MiB.

\* Largest upload explored.
MaxUploadBytes == 9

\* chunk_size = 8 * 1024 * 1024
chunk_size == 2

\* max_bytes = MAX_UPLOAD_SIZE_MB * 1024 * 1024, for three settings of
\* MAX_UPLOAD_SIZE_MB (one of them not a multiple of the chunk size).
MaxBytes == {3, 4, 6}

\* if bytes_written >= max_bytes
exceeds_or_reaches(bytes_written, max_bytes) == bytes_written >= max_bytes

\* if bytes_written > max_bytes
exceeds(bytes_written, max_bytes) == bytes_written > max_bytes

NoUpload ==
    [stage |-> "idle", size |-> 0, max_bytes |-> 0, position |-> 0,
     bytes_written |-> 0, exists |-> FALSE, st_size |-> 0]

\* upload_file.file.read(chunk_size): up to chunk_size bytes, none only at
\* the end of the upload.
ReadSizes(remaining) ==
    IF remaining = 0 THEN {0} ELSE 1..Min(chunk_size, remaining)

\* save_upload_file up to `with destination.open("wb") as buffer`: the
\* destination exists and is empty.
OpenDestination ==
    /\ upload.stage = "idle"
    /\ \E size \in 0..MaxUploadBytes, max_bytes \in MaxBytes :
         upload' = [NoUpload EXCEPT !.stage = "writing",
                                    !.size = size,
                                    !.max_bytes = max_bytes,
                                    !.exists = TRUE]
    /\ UNCHANGED <<analysis_vars, chunked, session, insight>>

\* One iteration of `while True`.
CopyChunk ==
    /\ upload.stage = "writing"
    /\ \E chunk \in ReadSizes(upload.size - upload.position) :
         IF chunk = 0
         THEN upload' = [upload EXCEPT !.stage = "returned"]
         ELSE
           LET bytes_written == upload.bytes_written + chunk
           IN  IF exceeds(bytes_written, upload.max_bytes)
               THEN upload' = [upload EXCEPT !.stage = "raised",
                                             !.position = @ + chunk,
                                             !.bytes_written = bytes_written,
                                             !.exists = FALSE,
                                             !.st_size = 0]
               ELSE upload' = [upload EXCEPT !.position = @ + chunk,
                                             !.bytes_written = bytes_written,
                                             !.st_size = @ + chunk]
    /\ UNCHANGED <<analysis_vars, chunked, session, insight>>

UploadNext ==
    \/ OpenDestination
    \/ CopyChunk

\* ------------------------------------------------------ the drivers idle

ChunkedIdle == chunked = NotChunked
SessionIdle == session = NoSession
UploadIdle == upload = NoUpload
InsightIdle == insight = NoInsight
DriverIdle == ChunkedIdle /\ SessionIdle /\ UploadIdle /\ InsightIdle

Init == LoopInit /\ HelperInit /\ FeatureIdle /\ AttributionIdle /\ DriverIdle

Next ==
    \/ EmptyCapture
    \/ FirstPacket
    \/ NextPacket
    \/ Finish
    \/ LoadFeatures

\* The extraction script.
Spec == Init /\ [][Next]_vars

HelperNext ==
    \/ NewWindowCall
    \/ UpdateWindowCall
    \/ FinalizeWindowCall

\* WindowHelpers driven by an arbitrary caller.
HelperSpec == Init /\ [][HelperNext]_vars

FeatureNext ==
    \/ EngineerCall
    \/ SelectCall

AttributionNext == CalculateCall

\* calculate_contributing_features applied to a frame and its labels.
AttributionStart ==
    LoopInit /\ HelperInit /\ FeatureIdle /\ AttributionInit /\ DriverIdle
AttributionSpec == AttributionStart /\ [][AttributionNext]_vars

ChunkedStart ==
    /\ LoopInit /\ HelperInit /\ FeatureIdle /\ AttributionIdle
    /\ ChunkedInit /\ SessionIdle /\ UploadIdle /\ InsightIdle

\* process_large_pcap.main on a capture file.
ChunkedSpec == ChunkedStart /\ [][ChunkedNext]_vars

ChunkDirStart ==
    /\ LoopInit /\ HelperInit /\ FeatureIdle /\ AttributionIdle
    /\ ChunkDirInit /\ SessionIdle /\ UploadIdle /\ InsightIdle

\* extract_merge_analyze.main on a directory of chunks.
ChunkDirSpec == ChunkDirStart /\ [][ChunkDirNext]_vars

SessionStart ==
    /\ LoopInit /\ HelperInit /\ FeatureIdle /\ AttributionIdle
    /\ ChunkedIdle /\ SessionIdle /\ UploadIdle /\ InsightIdle

\* upload_pcap and the background task _process_session on one upload.
SessionSpec == SessionStart /\ [][SessionNext]_vars

\* The same, with the scheduling of the server: a request handler runs to
\* its end, and a background task that was added runs after the response
\* and runs to its end.
SessionFairSpec == SessionSpec /\ WF_vars(SessionNext)

\* save_upload_file on one upload.
UploadSpec == SessionStart /\ [][UploadNext]_vars

InsightStart ==
    /\ LoopInit /\ HelperInit /\ FeatureIdle /\ AttributionIdle
    /\ ChunkedIdle /\ SessionIdle /\ UploadIdle /\ InsightInit

\* InsightGenerator.generate applied to a list of records.
InsightSpec == InsightStart /\ [][InsightNext]_vars

\* The feature-engineering functions and selectors applied to a DataFrame.
FeatureStart ==
    LoopInit /\ HelperInit /\ FeatureInit /\ AttributionIdle /\ DriverIdle
FeatureSpec == FeatureStart /\ [][FeatureNext]_vars

\* --------------------------------------------------------------- claims

NonDecreasing(s) == \A k \in 1..(Len(s) - 1) : s[k].time <= s[k + 1].time

RECURSIVE SumCounts(_)
SumCounts(ws) ==
    IF ws = <<>> THEN 0 ELSE ws[1].packet_count + SumCounts(Tail(ws))

\* The first window of the run: the first record once one is emitted (the
\* first window holds the first packet, so it is the first one emitted),
\* the open window before that.
FirstWindow == IF windows # <<>> THEN windows[1] ELSE current_window

\* Indices in `packets` of the packets counted in the open window: the
\* last current_window.packet_count ones.
OpenWindowIdx ==
    (Len(packets) - current_window.packet_count + 1)..Len(packets)

\* The flow a packet belongs to as the specification keys it: the 5-tuple,
\* with ports 0 for ICMP and other protocols.
FlowKey(pkt) ==
    <<pkt.src, LoopSport(pkt), pkt.dst, LoopDport(pkt), LoopProto(pkt)>>

\* C1: every emitted window record satisfies
\* tcp_count + udp_count + icmp_count + other_count = packet_count.
C1_CountersSumToPacketCount ==
    \A k \in 1..Len(windows) :
        windows[k].tcp_count + windows[k].udp_count + windows[k].icmp_count
            + windows[k].other_count = windows[k].packet_count

\* C2: for a stream with non-decreasing timestamps every packet is counted
\* in exactly one window: while the loop runs the emitted records and the
\* open window together hold every packet read, and at the end of the run
\* the packet_count of the emitted records sums to the number of packets.
C2_EveryPacketCountedOnce ==
    NonDecreasing(packets) =>
        /\ pc = "loop" =>
             SumCounts(windows) + current_window.packet_count = Len(packets)
        /\ pc = "done" => SumCounts(windows) = Len(packets)

\* C2 witness: a finished run over three time-ordered packets in which a
\* window was closed and a later one emitted.
C2_Witness ==
    /\ pc = "done"
    /\ Len(packets) = 3
    /\ NonDecreasing(packets)
    /\ Len(windows) >= 2

\* C3: every window between the first and the last packet is emitted, an
\* empty one with zero counters; packets at t=0 and t=120 with W=60 yield
\* exactly 3 records, the middle one empty.
C3_EmptyWindowsEmitted ==
    (pc = "done" /\ NonDecreasing(packets) /\ packets # <<>>) =>
        /\ Len(windows) * window_size =
             windows[Len(windows)].window_end - windows[1].window_start
        /\ (Len(packets) = 2 /\ packets[1].time = 0 /\ packets[2].time = 120)
             => (Len(windows) = 3 /\ windows[2].packet_count = 0)

\* C4: in the emitted sequence each record starts where the one before it
\* ends, also across idle gaps longer than one window.
C4_WindowContiguity ==
    \A k \in 1..(Len(windows) - 1) :
        windows[k + 1].window_start = windows[k].window_end

\* C5: windows are right-open: the packet just processed, which is counted
\* in the open window, has a timestamp strictly below that window's
\* window_end (a packet at window_end is never added to the window).
C5_RightOpenWindows ==
    pc = "loop" => packets[Len(packets)].time < current_window.window_end

\* C6 as stated: the first window opens at floor(ts / W) * W, not at ts.
C6_FirstWindowAligned ==
    packets # <<>> =>
        FirstWindow.window_start =
            (packets[1].time \div window_size) * window_size

\* C6 amended: the first window opens at the first packet's timestamp ts
\* itself and ends at ts + W, whether or not ts is a multiple of W.
C6_FirstWindowAtFirstTimestamp ==
    packets # <<>> =>
        /\ FirstWindow.window_start = packets[1].time
        /\ FirstWindow.window_end = packets[1].time + window_size

\* C6 witness: a finished run whose first packet's timestamp is not a
\* multiple of W and whose first window was emitted.
C6_Witness ==
    /\ pc = "done"
    /\ packets # <<>>
    /\ packets[1].time % window_size # 0
    /\ windows # <<>>

\* C7: every emitted window is exactly window_size long, and at the end of
\* a non-empty stream the terminal (open) window has been emitted as the
\* last record.
C7_WindowWidth ==
    /\ \A k \in 1..Len(windows) :
         windows[k].window_end - windows[k].window_start = window_size
    /\ (pc = "done" /\ packets # <<>>) =>
         /\ windows # <<>>
         /\ windows[Len(windows)].window_start = current_window.window_start
         /\ windows[Len(windows)].window_end = current_window.window_end
         /\ windows[Len(windows)].packet_count = current_window.packet_count

\* C7 witness: a finished run that emitted a closed window and then the
\* terminal one.
C7_Witness ==
    /\ pc = "done"
    /\ Len(windows) >= 2
    /\ windows[Len(windows)].window_start > windows[1].window_start

\* C8: two packets 10 minutes apart with W=60 yield 10 records, 8 of them
\* with packet_count 0, each at its place in the contiguous sequence.
C8_TenMinuteGap ==
    (pc = "done" /\ Len(packets) = 2
        /\ packets[2].time - packets[1].time = 600) =>
        /\ Len(windows) = 10
        /\ Cardinality({k \in 1..Len(windows) :
                            windows[k].packet_count = 0}) = 8
        /\ \A k \in 1..Len(windows) :
             windows[k].window_start =
                 windows[1].window_start + (k - 1) * window_size

\* C9: each packet of a window belongs to exactly one flow of the window,
\* ICMP and other-protocol packets to a flow keyed with ports 0.  A packet
\* has one key, so the per-flow packet (byte) counts sum to packet_count
\* (total_bytes) exactly when every packet's key is in the flow table.
C9_EveryPacketInAFlow ==
    pc = "loop" =>
        \A k \in OpenWindowIdx : FlowKey(packets[k]) \in current_window.flows

\* C10: update_window never raises and never leaves the accumulator with
\* packet_count incremented but no protocol counter incremented (a non-IP
\* frame counts in other_protocol_count).
C10_NonIPFrameCounted ==
    /\ helper_pc # "raised"
    /\ stats.tcp_count + stats.udp_count + stats.icmp_count
         + stats.other_protocol_count = stats.packet_count

\* The step that handles an out-of-order packet: one whose timestamp is
\* before the start of the window that is open when it arrives.
OutOfOrderStep ==
    /\ pc = "loop" /\ pc' = "loop"
    /\ Len(packets') = Len(packets) + 1
    /\ packets'[Len(packets')].time < current_window.window_start

\* The two non-monotonic-timestamp policies of the specification.  The
\* loop reads no such setting: it runs the same way under either.
Policies == {"clamp", "reject"}

\* C11: an out-of-order packet is, under the clamp policy, counted in the
\* current window without touching the emitted records, and under the
\* reject policy makes the run fail with NonMonotonicTimestamp.
C11_NonMonotonicPolicy ==
    [][\A policy \in Policies :
         OutOfOrderStep =>
           /\ policy = "clamp" =>
                /\ windows' = windows
                /\ current_window'.window_start = current_window.window_start
                /\ current_window'.packet_count =
                       current_window.packet_count + 1
           /\ policy = "reject" => pc' = "NonMonotonicTimestamp"]_vars

\* C12: a capture with zero packets ends in an explicit EmptyCapture error:
\* once the run has left its start, it is in that error, with no record
\* emitted, and never goes on as a success.
C12_EmptyCaptureIsAnError ==
    (packets = <<>> /\ pc # "init") =>
        (pc = "EmptyCapture" /\ windows = <<>>)

\* C13: feature engineering returns exactly one feature row per input
\* window record, in the same order, for an input of any length (row i of
\* the result is window i of the input).
C13_OneRowPerRecord ==
    fe_out.stage = "engineered" =>
        /\ Len(fe_out.out.rows) = Len(df.rows)
        /\ \A i \in 1..Len(df.rows) :
             /\ fe_out.out.rows[i]["window_start"] = df.rows[i]["window_start"]
             /\ fe_out.out.rows[i]["packet_count"] = df.rows[i]["packet_count"]
             /\ fe_out.out.rows[i]["total_bytes"] = df.rows[i]["total_bytes"]

\* Engineering has run on a full-length input whose windows differ and
\* include an empty one.
C13_Witness ==
    /\ fe_out.stage = "engineered"
    /\ Len(df.rows) = MaxWindows
    /\ df.rows[1]["packet_count"] = 100
    /\ df.rows[2]["packet_count"] = 0
    /\ df.rows[3]["packet_count"] = 10

\* The paths that compute rolling deltas, and for each the pairs
\* <<raw column, rolling-delta column>> (retrain_scale_robust names the
\* delta columns after the raw ones).
PctPaths == BehavioralPaths \cup {"scale_robust"}
PctCols(path) ==
    IF path = "scale_robust"
    THEN {<<"packet_count", "pct_change_packet_count">>,
          <<"bytes_per_sec", "pct_change_bytes_per_sec">>,
          <<"flow_count", "pct_change_flow_count">>}
    ELSE {<<"packet_count", "pct_change_packets">>,
          <<"bytes_per_sec", "pct_change_bytes_ps">>,
          <<"flow_count", "pct_change_flows">>}

\* A run of a path that computes rolling deltas has returned.
PctEngineered == fe_out.stage = "engineered" /\ fe_out.path \in PctPaths

PctPackets(path) ==
    IF path = "scale_robust" THEN "pct_change_packet_count"
    ELSE "pct_change_packets"

\* C15: for window i the rolling baseline rp is the arithmetic mean of
\* packet_count over the last min(i+1, R) windows including window i, and
\* pct_change_packets = (packet_count_i - rp) / (rp + 1); for ten windows
\* 10, ..., 10, 100 and R = 5 the last window has rp = 28 and
\* pct_change_packets = 72/29.  (With n windows of sum s, rp = s / n and
\* the delta is (n * x - s) / (s + n).)
C15_RollingBaseline ==
    PctEngineered =>
        /\ \A i \in 1..Len(df.rows) :
             LET n == Min(i, fe_out.rolling_window)
                 s == ColSum(df, "packet_count", i - n + 1, i)
             IN  fe_out.out.rows[i][PctPackets(fe_out.path)]
                     = Rat(n * df.rows[i]["packet_count"] - s, s + n)
        /\ (Len(df.rows) = 10 /\ fe_out.rolling_window = 5
              /\ (\A i \in 1..9 : df.rows[i]["packet_count"] = 10)
              /\ df.rows[10]["packet_count"] = 100)
            => /\ ColSum(df, "packet_count", 6, 10) = 5 * 28
               /\ fe_out.out.rows[10][PctPackets(fe_out.path)] = <<72, 29>>

\* C16: in every feature-engineering path that computes it,
\* bytes_per_packet of a window equals total_bytes / max(packet_count, 1):
\* the exact mean packet size of a non-empty window, 0 for an empty one.
C16_BytesPerPacket ==
    (fe_out.stage = "engineered" /\ Has(fe_out.out, "bytes_per_packet")) =>
        \A i \in 1..Len(df.rows) :
            fe_out.out.rows[i]["bytes_per_packet"]
                = Rat(df.rows[i]["total_bytes"],
                      Max(df.rows[i]["packet_count"], 1))

\* C17: feature engineering at inference time is the same function as at
\* training time: on the same window sequence and rolling window, the
\* engineer_behavioral_features of infer_behavioral_model and of
\* run_production_inference return exactly the columns and values that the
\* one of train_behavioral_model returns.
C17_InferenceMatchesTraining ==
    (fe_out.stage = "engineered"
       /\ fe_out.path \in {"infer_behavioral", "production_behavioral"}) =>
        /\ fe_out.out.columns = TrainEngineer(df, fe_out.rolling_window).columns
        /\ fe_out.out.rows = TrainEngineer(df, fe_out.rolling_window).rows
        /\ InferEngineer(df, fe_out.rolling_window)
               = ProductionEngineer(df, fe_out.rolling_window)

\* The inference-time function has run on an input long enough for the
\* rolling baseline, holding a spike, without the optional flow column.
C17_Witness ==
    /\ fe_out.stage = "engineered"
    /\ fe_out.path = "production_behavioral"
    /\ fe_out.rolling_window = 5
    /\ Len(df.rows) = MaxWindows
    /\ ~Has(df, "flow_count")
    /\ df.rows[Len(df.rows)]["packet_count"] = 100
    /\ fe_out.out.rows[Len(df.rows)]["pct_change_packets"] # Zero

\* The DataFrames a selector is applied to: the raw input and whatever an
\* engineering function or selector has returned.
Selectable == {df, fe_out.out}

\* C18: the column selectors are idempotent: select_features,
\* select_behavioral_features and select_ml_features applied to their own
\* output return that output unchanged, also when listed features are
\* absent from the input.
C18_SelectorsIdempotent ==
    \A d \in Selectable :
        /\ select_features(select_features(d)) = select_features(d)
        /\ select_behavioral_features(select_behavioral_features(d))
               = select_behavioral_features(d)
        /\ select_ml_features(select_ml_features(d)) = select_ml_features(d)

\* A selector has run on windows engineered from an input without flow
\* counts and packet-size bounds, so that listed features (pct_change_flows,
\* flow_per_packet, packet_size_range) are absent and others are kept.
C18_Witness ==
    /\ fe_out.stage = "selected"
    /\ fe_out.path = "train_behavioral"
    /\ Len(df.rows) >= 2
    /\ ~Has(df, "flow_count") /\ ~Has(df, "max_packet_size")
    /\ Len(fe_out.out.columns) = 9
    /\ ~Has(fe_out.out, "pct_change_flows")
    /\ Has(fe_out.out, "pct_change_packets")
    /\ Len(select_features(df).columns) > 1
    /\ Len(select_ml_features(fe_out.out).columns) > 1

\* calculate_contributing_features has returned.
Attributed == attribution.stage = "attributed"
AnomalousRows ==
    {idx \in 1..Len(attribution.df_features.rows) :
        attribution.predictions[idx] = -1}

\* C19: the deviation of each feature is |x - median| / max(MAD, 1): any
\* MAD below 1, not only a MAD equal to 0, is replaced by 1 before dividing.
C19_MadFlooredAtOne ==
    Attributed =>
        \A idx \in AnomalousRows, c \in Range(AttrColumns) :
            LET d == attribution.df_features
                median == Median(Column(d, c))
                MAD == Median([i \in 1..Len(d.rows) |->
                                 RatAbs(RatSub(d.rows[i][c], median))])
                floored == IF RatLess(MAD, One) THEN One ELSE MAD
            IN  attribution.deviations[idx][c]
                    = RatDiv(RatAbs(RatSub(d.rows[idx][c], median)), floored)

RECURSIVE EntrySum(_, _)
EntrySum(entry, S) ==
    IF S = {} THEN 0
    ELSE LET c == CHOOSE x \in S : TRUE
         IN  entry[c] + EntrySum(entry, S \ {c})

\* The features of an entry are those with the largest deviations.
LargestDeviations(idx) ==
    \A c \in DOMAIN attribution.result[idx] :
        \A o \in Range(AttrColumns) \ DOMAIN attribution.result[idx] :
            ~RatLess(attribution.deviations[idx][c],
                     attribution.deviations[idx][o])

\* C20 as stated: one entry per input row; the entry of a row labelled -1
\* holds at most 5 features, those with the largest deviations, whose
\* percentages sum to 100; the entry of a row labelled 1 is empty.
C20_PercentagesSumTo100 ==
    Attributed =>
        /\ Len(attribution.result) = Len(attribution.df_features.rows)
        /\ \A idx \in 1..Len(attribution.result) :
             LET entry == attribution.result[idx]
             IN  IF idx \in AnomalousRows
                 THEN /\ Cardinality(DOMAIN entry) <= 5
                      /\ LargestDeviations(idx)
                      /\ EntrySum(entry, DOMAIN entry) = 1000
                 ELSE entry = EmptyEntry

\* C20, amended: one entry per input row; the entry of a row labelled 1 is
\* empty; the entry of a row labelled -1 is empty when all its deviations
\* are 0, and otherwise holds the min(top_n, number of features) features
\* with the largest deviations (top_n defaults to 5), with percentages
\* rounded to one decimal that sum to 100 to within 0.05 per feature.
C20_AttributionEntries ==
    Attributed =>
        /\ Len(attribution.result) = Len(attribution.df_features.rows)
        /\ \A idx \in 1..Len(attribution.result) :
             LET entry == attribution.result[idx]
                 n == Cardinality(DOMAIN entry)
             IN  IF idx \in AnomalousRows
                 THEN /\ (entry = EmptyEntry) <=>
                            (\A c \in Range(AttrColumns) :
                                attribution.deviations[idx][c] = Zero)
                      /\ entry # EmptyEntry =>
                            /\ n = Min(attribution.top_n, Len(AttrColumns))
                            /\ LargestDeviations(idx)
                            /\ 2 * Abs(EntrySum(entry, DOMAIN entry) - 1000)
                                   <= n
                 ELSE entry = EmptyEntry

\* A frame with a normal row, an anomalous row equal to the medians, and
\* an anomalous row deviating in all features: once attributed with fewer
\* places than features, once with three equal shares of 33.3 %.
C20_Witness ==
    /\ Attributed
    /\ \E i, j, k \in 1..Len(attribution.result) :
         /\ attribution.predictions[i] = 1
         /\ j \in AnomalousRows /\ attribution.result[j] = EmptyEntry
         /\ k \in AnomalousRows
         /\ \/ /\ attribution.top_n = 5
               /\ EntrySum(attribution.result[k],
                           DOMAIN attribution.result[k]) = 999
            \/ /\ attribution.top_n = 2
               /\ Cardinality(DOMAIN attribution.result[k]) = 2
               /\ \A c \in Range(AttrColumns) :
                     attribution.deviations[k][c] # Zero

\* C21: the chunked driver cuts a capture only at window boundaries, so
\* that splitting the capture, extracting every chunk and concatenating
\* the outputs yields the same window-record sequence as extracting the
\* whole capture in one pass (no window is split into two records).
C21_ChunkingPreservesWindows ==
    chunked.stage = "merged" => chunked.merged = Extract(chunked.capture)

\* C22: the merged window-record list handed to feature engineering and
\* inference is in capture time order for any number of chunks: all records
\* of chunk k precede all records of chunk k+1, also with 10 or more chunks.
C22_MergedInTimeOrder ==
    chunked.stage = "merged" =>
        /\ Len(chunked.merged) >= Len(chunked.dir)
        /\ \A i \in 1..Len(chunked.merged), j \in 1..Len(chunked.merged) :
             i < j =>
                chunked.merged[i].window_start < chunked.merged[j].window_start

\* The ratio fields of a closed window the claim names.
RatioFields ==
    {"tcp_ratio", "udp_ratio", "icmp_ratio", "other_ratio", "avg_packet_size"}

\* C23: closing a window with packet_count = 0 yields tcp_ratio, udp_ratio,
\* icmp_ratio, other_ratio and avg_packet_size equal to 0, without a
\* division by zero (the record finalize_window returns carries the five
\* fields, all 0).
C23_EmptyWindowRatiosZero ==
    \A k \in 1..Len(finalized) :
        finalized[k].packet_count = 0 =>
            /\ RatioFields \subseteq DOMAIN finalized[k]
            /\ \A f \in RatioFields : finalized[k][f] = <<0, 1>>

\* C24: whenever the extractor process exits with a non-zero code (such as
\* 3 for a pcapng input), run_rust_extractor raises instead of returning a
\* features path, no inference is run on the session, and _process_session
\* leaves the session with status "failed" and the error message recorded.
C24_ExtractorFailureFailsSession ==
    (session.extractor # "not run" /\ session.returncode # 0) =>
        /\ session.extractor = "raised"
        /\ ~session.inferred
        /\ session.status = "failed"
        /\ session.error_message = "Extractor failed"
        /\ session.traffic_windows = <<>>

C24_Witness ==
    /\ session.extractor = "raised"
    /\ session.returncode = 3
    /\ session.status = "failed"

\* C25: every session row upload_pcap creates with status "processing"
\* eventually leaves that status: whether saving the upload fails,
\* extraction or inference fails, or processing succeeds, the session ends
\* with status "completed" or "failed" and never stays "processing".
C25_ProcessingEnds ==
    (session.status = "processing") ~>
        (session.status \in {"completed", "failed"})

\* The rows a completed session must have: one traffic window and one
\* anomaly result per window record.
AllRowsPersisted ==
    /\ Len(session.traffic_windows) = Len(session.records)
    /\ Len(session.anomaly_results) = Len(session.records)

\* C26: whenever a session's status is "completed", one traffic_window row
\* and one anomaly_result row have been persisted for every window record
\* of the session, and the status never changes from "completed" to
\* "failed" afterwards (a reader polling the session never sees "completed"
\* with windows still missing).
C26_CompletedMeansPersisted ==
    [][/\ session.status = "completed" => AllRowsPersisted
       /\ session.status = "completed" => session'.status # "failed"]_vars

\* C27: within one session the persisted traffic windows carry window_id
\* 1..N in the order of the extractor's records, with no gap or duplicate,
\* and the anomaly_result with window_id k is built from the same record as
\* traffic window k and references that window's row id.
C27_WindowIdsFollowRecords ==
    /\ Len(session.traffic_windows) <= Len(session.records)
    /\ \A k \in 1..Len(session.traffic_windows) :
          /\ session.traffic_windows[k].window_id = k
          /\ session.traffic_windows[k].window_start =
                session.records[k].window_start
    /\ Len(session.anomaly_results) <= Len(session.traffic_windows)
    /\ \A k \in 1..Len(session.anomaly_results) :
          LET result == session.anomaly_results[k]
          IN  /\ result.window_id = k
              /\ result.window_start = session.records[k].window_start
              /\ result.anomaly_score = session.records[k].anomaly_score
              /\ result.is_anomaly = session.records[k].is_anomaly
              /\ result.traffic_window_id = session.traffic_windows[k].id

C27_Witness ==
    /\ session.stage = "done"
    /\ session.status = "completed"
    /\ Len(session.records) = MaxRecords
    /\ Len(session.anomaly_results) = MaxRecords
    /\ session.traffic_windows[1].id = 7
    /\ session.records[1].anomaly_score # session.records[2].anomaly_score

\* C28: save_upload_file has exactly two outcomes: it returns the
\* destination path with the file holding all uploaded bytes and a total
\* size not above the maximum, or it raises ValueError and no file remains
\* at the destination; an upload of exactly the maximum size is accepted.
C28_SavedOrRemoved ==
    /\ upload.stage = "returned" =>
          /\ upload.exists
          /\ upload.st_size = upload.size
          /\ upload.size <= upload.max_bytes
    /\ upload.stage = "raised" =>
          /\ ~upload.exists
          /\ upload.size > upload.max_bytes
    /\ upload.stage = "writing" => ENABLED CopyChunk
    /\ (upload.stage = "writing" /\ upload.size = upload.max_bytes) =>
          /\ upload.exists
          /\ upload.st_size = upload.position

C28_Witness ==
    /\ upload.stage = "returned"
    /\ upload.size = upload.max_bytes
    /\ upload.size > chunk_size
    /\ upload.st_size = upload.size

\* The 1-based positions of the records _is_anomaly flags.
AnomalousRecords(records) ==
    LET scores == [k \in 1..Len(records) |-> safe_score(records[k])]
    IN  {k \in 1..Len(records) : is_anomaly(records[k], score_stats(scores))}

\* C29: generate returns at most max_alerts alerts; when at least one
\* record is anomalous every alert refers to an anomalous record, and the
\* alerts are the lowest-scoring such records in ascending score order;
\* stats.total_windows is the number of records and stats.anomalies the
\* number of anomalous records.
C29_AlertsAreLowestAnomalies ==
    insight.stage = "generated" =>
        LET records == insight.records
            alerts == insight.report.alerts
            anomalous == AnomalousRecords(records)
            alerted == {alerts[k].idx + 1 : k \in 1..Len(alerts)}
        IN  /\ Len(alerts) <= insight.max_alerts
            /\ insight.report.stats.total_windows = Len(records)
            /\ insight.report.stats.anomalies = Cardinality(anomalous)
            /\ anomalous # {} =>
                  /\ alerted \subseteq anomalous
                  /\ Cardinality(alerted) = Len(alerts)
                  /\ Len(alerts) = Min(insight.max_alerts, Cardinality(anomalous))
                  /\ \A k \in 1..Len(alerts) :
                        alerts[k].score = safe_score(records[alerts[k].idx + 1])
                  /\ \A j \in 1..Len(alerts), k \in 1..Len(alerts) :
                        j < k => alerts[j].score <= alerts[k].score
                  /\ \A k \in anomalous \ alerted, j \in 1..Len(alerts) :
                        alerts[j].score <= safe_score(records[k])

C29_Witness ==
    /\ insight.stage = "generated"
    /\ insight.max_alerts = 2
    /\ Len(insight.records) = 3
    /\ AnomalousRecords(insight.records) = {1, 2, 3}
    /\ Len(insight.report.alerts) = 2
    /\ insight.report.alerts[1].idx = 2
    /\ insight.report.alerts[1].score < insight.report.alerts[2].score
    /\ insight.report.alerts[2].score < safe_score(insight.records[1])

\* The detector scores of the session's records (anomaly_score, as
\* predict_with_feature_engineering names the column).
DetectorScoresOf(records) == [k \in 1..Len(records) |-> records[k].anomaly_score]

\* C30: for the records _process_session passes to InsightGenerator, each
\* alert's confidence is (max_score - score) / (max_score - min_score)
\* clamped to [0, 1] over the detector scores, so that when the scores
\* differ the lowest-scoring window gets confidence 1 and severity
\* "Critical"; the confidence is 0.5 only when all detector scores are equal.
C30_ConfidenceFromDetectorScores ==
    (session.stage = "done" /\ session.insights > 0) =>
        LET scores == DetectorScoresOf(session.records)
            st == score_stats(scores)
            alerts == session.report.alerts
        IN  \A k \in 1..Len(alerts) :
               LET score == scores[alerts[k].idx + 1]
               IN  /\ st.min # st.max =>
                         alerts[k].confidence =
                            Clamp01(Rat(st.max - score, st.max - st.min))
                   /\ (st.min # st.max /\ score = st.min) =>
                         /\ alerts[k].confidence = One
                         /\ alerts[k].severity = "Critical"
                   /\ st.min = st.max => alerts[k].confidence = <<1, 2>>

====
